---- MODULE Spec2Model ----
(***************************************************************************)
(* A model of boxdrawed's text buffer (src/text_area.rs) and of the canvas *)
(* that lays three text areas out on a pixel surface (src/canvas.rs).      *)
(*                                                                         *)
(* A TextArea is a record with the fields of the Rust struct; every method *)
(* of the struct is an operator from a TextArea (and the call's arguments) *)
(* to the TextArea after the call.  The actions apply these operators to   *)
(* the canvas's areas.                                                     *)
(***************************************************************************)
EXTENDS Integers, Sequences, FiniteSets, TLC

(* ------------------------------ bounds -------------------------------- *)

\* The cursor is an isize pair; the model keeps the drawing area's cursor
\* within 0..MaxX by 0..MaxY.
MaxX == 1
MaxY == 0
\* Longest edit log the model records.
MaxHist == 2
\* Largest amount passed to move_cursor_by.
MaxAmount == 2
\* Largest surface width and height, in pixels, the model resizes to.
MaxWidth == 2
MaxHeight == 5
\* Largest font size passed to set_font_size, in half pixels.
MaxFont == 6
\* Longest status text, and the longest edit log of a status line.
MaxStatus == 3
MaxStatusHist == 4
\* Largest glyph width and height, in pixels, largest bearing (xmin, ymin) in
\* absolute value, and largest cell coordinate a glyph is drawn at.
MaxGlyph == 2
MaxBearing == 2
MaxCell == 1
\* Longest edit log of the drawing area while keys are pressed, and longest
\* Extra-mode code buffer.
MaxKeyHist == 3
MaxCode == 2
\* Most characters waiting on the input channel.
MaxPending == 2
\* Largest width and height, in cells, of a rectangle given to invert, to
\* set_size or to characters_in_bounding_box.
MaxRect == 2
\* Farthest cell from the origin, on either axis, the cursor is taken to
\* when the surface is resized between moves.
MaxCursor == 1
\* Most characters in a storage given to characters_in_bounding_box.
MaxStored == 2
\* The longest string written in one write_string_at_cursor call.
MaxString == 2
\* The longest run of characters typed in Text mode.
MaxTyped == 2
\* isize and usize are 64 bits wide.  Where a claim turns on their limits
\* the model scales both to WordBits bits: isize is IsizeMin..IsizeMax and
\* usize is 0..UsizeMax.
WordBits == 3

Chars == {"A", "B"}

(* ------------------------------ Option -------------------------------- *)

\* Option<T>: None is the empty set, Some(v) the singleton {v}.
None == {}
Some(v) == {v}
Unwrap(o) == CHOOSE v \in o : TRUE

(* ------------------------ Coordinates, BoundingBox --------------------- *)

Coordinates(x, y) == [x |-> x, y |-> y]

CoordAdd(a, b) == Coordinates(a.x + b.x, a.y + b.y)

CoordSub(a, b) == Coordinates(a.x - b.x, a.y - b.y)

CoordScale(a, k) == Coordinates(a.x * k, a.y * k)

BoundingBox_new(top_left, width, height) ==
    [top_left |-> top_left, width |-> width, height |-> height]

\* A faulty contains: closed at the far edge on both axes.
contains_closed(bb, point) ==
    /\ bb.top_left.x <= point.x /\ point.x <= bb.top_left.x + bb.width
    /\ bb.top_left.y <= point.y /\ point.y <= bb.top_left.y + bb.height

\* Half-open on both axes.  saturating_add_unsigned differs from + only at
\* isize::MAX, far outside the modelled coordinates.
contains(bb, point) ==
    /\ bb.top_left.x <= point.x /\ point.x < bb.top_left.x + bb.width
    /\ bb.top_left.y <= point.y /\ point.y < bb.top_left.y + bb.height

convert_to_relative(bb, point) ==
    IF contains(bb, point) THEN Some(CoordSub(point, bb.top_left)) ELSE None

(* ------------------- BoundingBox on integers of a width ---------------- *)

IsizeMax == 2^(WordBits - 1) - 1
IsizeMin == -(2^(WordBits - 1))
UsizeMax == 2^WordBits - 1

\* a.saturating_add_unsigned(u), for an isize a and a usize u
saturating_add_unsigned(a, u) == IF a + u > IsizeMax THEN IsizeMax ELSE a + u

\* a - b on isize.  A build with overflow checks panics when the difference
\* is not an isize; a build without them wraps it.
isize_sub(a, b, overflow_checks) ==
    LET d == a - b
        overflows == d > IsizeMax \/ d < IsizeMin
    IN  [panicked |-> overflow_checks /\ overflows,
         value |-> IF d > IsizeMax THEN d - 2^WordBits
                   ELSE IF d < IsizeMin THEN d + 2^WordBits ELSE d]

\* BoundingBox::contains: the ranges end at the saturated sums.
BoundingBox_contains(bb, point) ==
    /\ bb.top_left.x <= point.x
    /\ point.x < saturating_add_unsigned(bb.top_left.x, bb.width)
    /\ bb.top_left.y <= point.y
    /\ point.y < saturating_add_unsigned(bb.top_left.y, bb.height)

\* BoundingBox::convert_to_relative: whether the call panics (on a
\* subtraction that overflows, or on an assertion that fails) and, if it
\* does not, the Option it returns.  The assertions run in turn, x first.
BoundingBox_convert_to_relative(bb, point, overflow_checks) ==
    LET dx == isize_sub(point.x, bb.top_left.x, overflow_checks)
        dy == isize_sub(point.y, bb.top_left.y, overflow_checks)
        panics == \/ dx.panicked \/ dx.value < 0
                  \/ dy.panicked \/ dy.value < 0
    IN  IF ~BoundingBox_contains(bb, point)
        THEN [panicked |-> FALSE, value |-> None]
        ELSE IF panics
        THEN [panicked |-> TRUE, value |-> None]
        ELSE [panicked |-> FALSE, value |-> Some(Coordinates(dx.value, dy.value))]

(* ----------------------------- TextStorage ---------------------------- *)

\* HashMap<Coordinates, char>: a function whose domain is the set of keys.
TextStorage_new == [p \in {} |-> "A"]

\* entry(pos).and_modify(|x| *x = c).or_insert(c)
Upsert(characters, pos, c) ==
    [p \in DOMAIN characters \cup {pos} |-> IF p = pos THEN c ELSE characters[p]]

\* A faulty remove: it leaves the map as it was.
Remove_nothing(characters, pos) == characters

\* HashMap::remove
Remove(characters, pos) ==
    [p \in DOMAIN characters \ {pos} |-> characters[p]]

\* The iteration order of a HashMap is arbitrary: the result is a set of
\* (relative coordinate, char) pairs.
characters_in_bounding_box(characters, bb) ==
    { <<Unwrap(convert_to_relative(bb, p)), characters[p]>> :
        p \in { q \in DOMAIN characters : convert_to_relative(bb, q) # None } }

(* ------------------------------ Direction ----------------------------- *)

Direction == {"Up", "Right", "Down", "Left"}

vector(direction) ==
    CASE direction = "Up"    -> Coordinates(0, -1)
      [] direction = "Right" -> Coordinates(1, 0)
      [] direction = "Down"  -> Coordinates(0, 1)
      [] direction = "Left"  -> Coordinates(-1, 0)

(* ------------------------------- History ------------------------------ *)

AddedChar(pos, c) == [kind |-> "AddedChar", pos |-> pos, c |-> c]
RemovedChar(pos, c) == [kind |-> "RemovedChar", pos |-> pos, c |-> c]

History_new == [changes |-> <<>>, cursor |-> 0]

\* Vec::get with a 0-based index: None when the index is out of range.
Get(changes, i) == IF i >= 0 /\ i < Len(changes) THEN Some(changes[i + 1]) ELSE None

\* A faulty History::undo: it reads the edit at the cursor before moving the
\* cursor back.
History_undo_reads_first(h) ==
    IF h.cursor = 0
    THEN [history |-> h, ret |-> None]
    ELSE [history |-> [h EXCEPT !.cursor = h.cursor - 1],
          ret |-> Get(h.changes, h.cursor)]

\* Each History method returns the history after the call and the value returned.
History_undo(h) ==
    IF h.cursor = 0
    THEN [history |-> h, ret |-> None]
    ELSE [history |-> [h EXCEPT !.cursor = h.cursor - 1],
          ret |-> Get(h.changes, h.cursor - 1)]

\* A faulty History::redo: it does not test for the end of the log.
History_redo_unchecked(h) ==
    [history |-> [h EXCEPT !.cursor = h.cursor + 1],
     ret |-> Get(h.changes, h.cursor)]

History_redo(h) ==
    IF Len(h.changes) = h.cursor
    THEN [history |-> h, ret |-> None]
    ELSE [history |-> [h EXCEPT !.cursor = h.cursor + 1],
          ret |-> Get(h.changes, h.cursor)]

\* Vec::truncate(n) keeps the first n elements and does nothing when n >= len.
Truncate(changes, n) == IF n < Len(changes) THEN SubSeq(changes, 1, n) ELSE changes

\* A faulty History::add: it appends without discarding the edits from the
\* cursor onward.
History_add_keeps_tail(h, change) ==
    [changes |-> Append(h.changes, change), cursor |-> h.cursor + 1]

History_add(h, change) ==
    LET kept == IF Len(h.changes) # h.cursor
                THEN Truncate(h.changes, h.cursor)
                ELSE h.changes
    IN  [changes |-> Append(kept, change), cursor |-> h.cursor + 1]

(* ------------------------------- TextArea ----------------------------- *)

TextArea_new(width, height) ==
    [text_storage |-> TextStorage_new,
     bounding_box |-> BoundingBox_new(Coordinates(0, 0), width, height),
     cursor_absolute_position |-> Coordinates(0, 0),
     view_cache |-> None,
     history |-> History_new]

cursor_relative_position(ta) ==
    Coordinates(ta.cursor_absolute_position.x - ta.bounding_box.top_left.x,
                ta.cursor_absolute_position.y - ta.bounding_box.top_left.y)

ensure_cache(ta) ==
    IF ta.view_cache = None
    THEN [ta EXCEPT !.view_cache =
            Some(characters_in_bounding_box(ta.text_storage, ta.bounding_box))]
    ELSE ta

\* chars() fills the cache and yields its contents.
chars(ta) == [area |-> ensure_cache(ta), ret |-> Unwrap(ensure_cache(ta).view_cache)]

\* A faulty adjustment: a cursor past the far edge is put one cell beyond it.
AdjustAxis_past_far_edge(top, size, cur) ==
    LET t1 == IF cur < top THEN cur ELSE top
    IN  IF cur >= t1 + size THEN cur - size ELSE t1

\* One axis of adjust_view_to_cursor: the two ifs run one after the other,
\* the second on the top-left the first may have changed.
AdjustAxis(top, size, cur) ==
    LET t1 == IF cur < top THEN cur ELSE top
    IN  IF cur >= t1 + size THEN cur - (size - 1) ELSE t1

\* A faulty adjust_view_to_cursor: when the cursor is outside the viewport on
\* an axis it puts the top-left on the cursor, whichever edge was passed.
adjust_view_to_cursor_snaps(ta) ==
    LET bb == ta.bounding_box
        cur == ta.cursor_absolute_position
        Snap(top, size, c) == IF c < top \/ c >= top + size THEN c ELSE top
    IN  [ta EXCEPT !.bounding_box.top_left =
            Coordinates(Snap(bb.top_left.x, bb.width, cur.x),
                        Snap(bb.top_left.y, bb.height, cur.y))]

adjust_view_to_cursor(ta) ==
    LET bb == ta.bounding_box
        cur == ta.cursor_absolute_position
    IN  [ta EXCEPT !.bounding_box.top_left =
            Coordinates(AdjustAxis(bb.top_left.x, bb.width, cur.x),
                        AdjustAxis(bb.top_left.y, bb.height, cur.y))]

move_cursor_by(ta, direction, amount) ==
    LET moved == [ta EXCEPT !.cursor_absolute_position =
                    CoordAdd(ta.cursor_absolute_position,
                             CoordScale(vector(direction), amount))]
    IN  [adjust_view_to_cursor(moved) EXCEPT !.view_cache = None]

move_cursor(ta, direction) ==
    LET moved == [ta EXCEPT !.cursor_absolute_position =
                    CoordAdd(ta.cursor_absolute_position, vector(direction))]
    IN  [adjust_view_to_cursor(moved) EXCEPT !.view_cache = None]

\* A faulty write_at_cursor: it leaves the character of an occupied cell in
\* place (or_insert without and_modify).
write_at_cursor_keeps_occupied(ta, c) ==
    LET pos == ta.cursor_absolute_position
    IN  [ta EXCEPT !.text_storage = IF pos \in DOMAIN ta.text_storage
                                    THEN ta.text_storage
                                    ELSE Upsert(ta.text_storage, pos, c),
                   !.history = History_add(ta.history, AddedChar(pos, c)),
                   !.view_cache = None]

write_at_cursor(ta, c) ==
    [ta EXCEPT !.text_storage = Upsert(ta.text_storage, ta.cursor_absolute_position, c),
               !.history = History_add(ta.history,
                                       AddedChar(ta.cursor_absolute_position, c)),
               !.view_cache = None]

\* A faulty erase_at_cursor: it records an edit whether or not the cell held
\* a character.
erase_at_cursor_always_records(ta) ==
    LET pos == ta.cursor_absolute_position
        old_char == IF pos \in DOMAIN ta.text_storage THEN ta.text_storage[pos] ELSE "A"
    IN  [ta EXCEPT !.text_storage = Remove(ta.text_storage, pos),
                   !.history = History_add(ta.history, RemovedChar(pos, old_char)),
                   !.view_cache = None]

erase_at_cursor(ta) ==
    LET pos == ta.cursor_absolute_position
        old_char == IF pos \in DOMAIN ta.text_storage
                    THEN Some(ta.text_storage[pos]) ELSE None
    IN  [ta EXCEPT !.text_storage = Remove(ta.text_storage, pos),
                   !.history = IF old_char # None
                               THEN History_add(ta.history,
                                                RemovedChar(pos, Unwrap(old_char)))
                               ELSE ta.history,
                   !.view_cache = None]

\* A faulty clear: it empties the edit log as well.
clear_forgets_history(ta) ==
    [ta EXCEPT !.text_storage = TextStorage_new, !.view_cache = None,
               !.history = History_new]

clear(ta) == [ta EXCEPT !.text_storage = TextStorage_new, !.view_cache = None]

reset_cursor(ta) == [ta EXCEPT !.cursor_absolute_position = Coordinates(0, 0)]

\* A faulty write_string_at_cursor: it moves the cursor before each write,
\* not after it.
RECURSIVE write_string_at_cursor_moves_first(_, _)
write_string_at_cursor_moves_first(ta, s) ==
    IF s = <<>> THEN ta
    ELSE write_string_at_cursor_moves_first(
            write_at_cursor(move_cursor(ta, "Right"), Head(s)), Tail(s))

RECURSIVE write_string_at_cursor(_, _)
write_string_at_cursor(ta, s) ==
    IF s = <<>> THEN ta
    ELSE write_string_at_cursor(move_cursor(write_at_cursor(ta, Head(s)), "Right"),
                                Tail(s))

replace_with_string(ta, s) == write_string_at_cursor(reset_cursor(clear(ta)), s)

\* A faulty set_size: it puts the cursor on the origin, not on the viewport's
\* top-left.
set_size_to_origin(ta, width, height) ==
    [ta EXCEPT !.bounding_box.width = width,
               !.bounding_box.height = height,
               !.view_cache = None,
               !.cursor_absolute_position = Coordinates(0, 0)]

set_size(ta, width, height) ==
    [ta EXCEPT !.bounding_box.width = width,
               !.bounding_box.height = height,
               !.view_cache = None,
               !.cursor_absolute_position = ta.bounding_box.top_left]

\* A faulty inverse: undoing an AddedChar leaves the character in place.
Revert_keeps_added(characters, change) ==
    IF change.kind = "AddedChar"
    THEN characters
    ELSE Upsert(characters, change.pos, change.c)

\* The storage after the inverse of a change (undo) or the change itself (redo).
Revert(characters, change) ==
    IF change.kind = "AddedChar"
    THEN Remove(characters, change.pos)
    ELSE Upsert(characters, change.pos, change.c)

\* A faulty Apply: it puts the character of the change in the storage whatever
\* the kind of the change.
Apply_always_upserts(characters, change) ==
    Upsert(characters, change.pos, change.c)

Apply(characters, change) ==
    IF change.kind = "AddedChar"
    THEN Upsert(characters, change.pos, change.c)
    ELSE Remove(characters, change.pos)

\* A faulty undo: it takes the cursor, and the view after it, to the cell of
\* the edit it reverts.
undo_follows_edit(ta) ==
    LET r == History_undo(ta.history)
    IN  IF r.ret # None
        THEN adjust_view_to_cursor(
                [ta EXCEPT !.history = r.history,
                           !.text_storage = Revert(ta.text_storage, Unwrap(r.ret)),
                           !.cursor_absolute_position = Unwrap(r.ret).pos,
                           !.view_cache = None])
        ELSE [ta EXCEPT !.history = r.history]

\* A faulty undo: it moves the history cursor and leaves the storage alone.
undo_keeps_storage(ta) ==
    [ta EXCEPT !.history = History_undo(ta.history).history, !.view_cache = None]

undo(ta) ==
    LET r == History_undo(ta.history)
    IN  IF r.ret # None
        THEN [ta EXCEPT !.history = r.history,
                        !.text_storage = Revert(ta.text_storage, Unwrap(r.ret)),
                        !.view_cache = None]
        ELSE [ta EXCEPT !.history = r.history]

\* A faulty redo: it moves the history cursor and leaves the storage alone.
redo_keeps_storage(ta) ==
    [ta EXCEPT !.history = History_redo(ta.history).history, !.view_cache = None]

redo(ta) ==
    LET r == History_redo(ta.history)
    IN  IF r.ret # None
        THEN [ta EXCEPT !.history = r.history,
                        !.text_storage = Apply(ta.text_storage, Unwrap(r.ret)),
                        !.view_cache = None]
        ELSE [ta EXCEPT !.history = r.history]

(* -------------------------------- Canvas ------------------------------ *)

\* FontManager::font_size is an f32.  The model holds it as a whole number
\* of half pixels, so that `as usize` has something to truncate: it rounds
\* toward zero and sends a negative value to 0.
character_height(font_size) == IF font_size < 0 THEN 0 ELSE font_size \div 2

character_width(font_size) == character_height(font_size) \div 2

\* A Canvas: its font size, its FrameBuffer's width and height, its three
\* text areas, and whether a call on it has panicked.
\* Canvas::new divides by the cell width and subtracts 2 from the number of
\* rows: CanvasNewCompletes says neither step fails.
CanvasNewCompletes(font_size, width, height) ==
    /\ character_width(font_size) # 0
    /\ height \div character_height(font_size) >= 2

Canvas_new(font_size, width, height) ==
    [font_size |-> font_size,
     frame_buffer |-> [width |-> width, height |-> height],
     top_line |-> TextArea_new(width \div character_width(font_size), 1),
     draw_area |-> TextArea_new(width \div character_width(font_size),
                                (height \div character_height(font_size)) - 2),
     bottom_line |-> TextArea_new(width \div character_width(font_size), 1),
     panicked |-> FALSE]

\* a.saturating_sub(b) on usize
saturating_sub(a, b) == IF a >= b THEN a - b ELSE 0

\* The three set_size calls of set_font_size and of resize.  The first
\* division is by the cell width: when that is 0 the call panics there.
Layout(cv) ==
    LET cw == character_width(cv.font_size)
        ch == character_height(cv.font_size)
        w == cv.frame_buffer.width
        h == cv.frame_buffer.height
    IN  IF cw = 0 \/ ch = 0
        THEN [cv EXCEPT !.panicked = TRUE]
        ELSE [cv EXCEPT
                !.top_line = set_size(cv.top_line, w \div cw, 1),
                !.draw_area = set_size(cv.draw_area, w \div cw,
                                       saturating_sub(h \div ch, 1)),
                !.bottom_line = set_size(cv.bottom_line, w \div cw, 1)]

\* A faulty set_font_size: it lays the areas out before it tests the size.
set_font_size_lays_out_first(cv, value) ==
    LET set == [cv EXCEPT !.font_size = value]
    IN  IF \/ character_height(value) > cv.frame_buffer.height \div 2
           \/ character_width(value) > cv.frame_buffer.width \div 2
        THEN [Layout(set) EXCEPT !.font_size = cv.font_size]
        ELSE Layout(set)

set_font_size(cv, value) ==
    LET set == [cv EXCEPT !.font_size = value]
    IN  IF \/ character_height(value) > cv.frame_buffer.height \div 2
           \/ character_width(value) > cv.frame_buffer.width \div 2
        THEN [set EXCEPT !.font_size = cv.font_size]
        ELSE Layout(set)

resize(cv, width, height) ==
    Layout([cv EXCEPT !.frame_buffer = [width |-> width, height |-> height]])

(* ------------------------------ FontManager ---------------------------- *)

\* The characters given to rasterize: the drawable ones and the space.
GlyphChars == Chars \cup {" "}

\* Font::lookup_glyph_index, of the font engine: the glyph of a character.
lookup_glyph_index(c) == CASE c = "A" -> 1 [] c = "B" -> 2 [] c = " " -> 3 [] OTHER -> 0

\* Font::rasterize, of the font engine: metrics and coverage bitmap of a
\* character at a pixel size.  The space has an empty bitmap; a drawable
\* character fills its cell.
FontEngine(c, px) ==
    LET width == IF c = " " THEN 0 ELSE character_width(px)
        height == IF c = " " THEN 0 ELSE character_height(px)
    IN  [metrics |-> [width |-> width, height |-> height, xmin |-> 0, ymin |-> 0],
         bitmap |-> [i \in 1..(width * height) |-> 255]]

FontAtlas_new == [key \in {} |-> 0]

\* GlyphRasterConfig: the key of the atlas (the font's hash never changes).
config_of(font_size, c) == [glyph_index |-> lookup_glyph_index(c), px |-> font_size]

\* rasterize: atlas.entry(key).or_insert(font.rasterize(c, font_size)).  The
\* argument of or_insert is evaluated before the entry is looked at, so the
\* engine is asked on every call; its answer is stored only when the key is
\* vacant.  ret is the entry's value after the call.
rasterize(atlas, font_size, c) ==
    LET key == config_of(font_size, c)
        answer == FontEngine(c, font_size)
        after == IF key \in DOMAIN atlas THEN atlas ELSE (key :> answer) @@ atlas
    IN  [atlas |-> after,
         ret |-> after[key],
         engine_asked |-> TRUE,
         cached |-> key \in DOMAIN atlas]

(* ------------------------------ FrameBuffer ---------------------------- *)

Min(a, b) == IF a <= b THEN a ELSE b

Max(a, b) == IF a >= b THEN a ELSE b

\* usize is 64 bits wide; the model's integers are not, and UsizeModulus
\* stands for 2^64: like 2^64, it exceeds every size the model computes, so
\* a wrapped difference exceeds every length it is compared with.
UsizeModulus == 2^30

\* a - b on usize.  A build with overflow checks (debug) panics when b > a;
\* a build without them (release) wraps.
usize_sub(a, b, overflow_checks) ==
    [panicked |-> overflow_checks /\ b > a,
     value |-> IF b > a THEN a - b + UsizeModulus ELSE a - b]

\* Canvas::new as the build runs it, for a font whose cell width is not 0:
\* the drawing area's height is (height / cell height) - 2 on usize, which
\* panics (overflow checks) or wraps (none) when fewer than 2 rows fit.
Canvas_new_built(font_size, width, height, overflow_checks) ==
    LET rows == usize_sub(height \div character_height(font_size), 2, overflow_checks)
    IN  [Canvas_new(font_size, width, height) EXCEPT
            !.draw_area = TextArea_new(width \div character_width(font_size), rows.value),
            !.panicked = rows.panicked]

\* Metrics of a rasterized glyph, as fontdue gives them; the bitmap holds
\* width * height coverage bytes.
Metrics(width, height, xmin, ymin) ==
    [width |-> width, height |-> height, xmin |-> xmin, ymin |-> ymin]

\* The pixel position draw computes for a glyph: its cell times the cell
\* size, shifted by the bearing and to the cell's baseline.
character_top_left(font_size, cell, metrics) ==
    Coordinates(cell.x * character_width(font_size) + metrics.xmin,
                cell.y * character_height(font_size)
                    + character_height(font_size) - metrics.ymin - metrics.height)

\* draw on a stream of one character whose glyph has the given metrics, at
\* cell = coord + top_left.  It yields whether the call panics and, if it
\* does not, the pixels it blends: dest is the destination pixel, src the
\* bitmap pixel blended into it.
\* The destination rows come from lines(): the surface's rows from by on, at
\* most lh of them, each sliced to bx..bx + lw when the zip pulls it; the zip
\* pulls a destination row before the bitmap row it pairs it with.
draw(fb, font_size, cell, metrics, overflow_checks) ==
    LET ctl == character_top_left(font_size, cell, metrics)
        bx == Max(ctl.x, 0)
        by == Max(ctl.y, 0)
        displacement_width == -Min(ctl.x, 0)
        displacement_height == -Min(ctl.y, 0)
        rw == usize_sub(fb.width, bx, overflow_checks)
        rh == usize_sub(fb.width, by, overflow_checks)
        displayed_width == Min(metrics.width, rw.value)
        displayed_height == Min(metrics.height, rh.value)
        lw == usize_sub(displayed_width, displacement_width, overflow_checks)
        lh == usize_sub(displayed_height, displacement_height, overflow_checks)
        dest_rows == IF by >= fb.height THEN 0 ELSE Min(lh.value, fb.height - by)
        src_rows == IF displacement_height >= metrics.height THEN 0
                    ELSE Min(displayed_height, metrics.height - displacement_height)
        dest_end == (bx + lw.value) % UsizeModulus
        src_end == (displacement_width + lw.value) % UsizeModulus
        rows == Min(dest_rows, src_rows)
        empty == metrics.width * metrics.height = 0
        panics ==
            \/ rw.panicked \/ rh.panicked \/ lw.panicked \/ lh.panicked
            \/ dest_rows >= 1 /\ ~(bx <= dest_end /\ dest_end <= fb.width)
            \/ rows >= 1 /\ ~(displacement_width <= src_end /\ src_end <= metrics.width)
    IN  [panicked |-> ~empty /\ panics,
         writes |-> IF empty \/ panics THEN {}
                    ELSE {[dest |-> Coordinates(bx + j, by + i),
                           src |-> Coordinates(displacement_width + j,
                                               displacement_height + i)] :
                            i \in 0..(rows - 1), j \in 0..(lw.value - 1)}]


\* A pixel is a u32, held as its four big-endian bytes (as to_be_bytes
\* gives them and from_be_bytes takes them): 2^32 exceeds the integers of
\* the model.  The buffer is the flat slice of the surface's pixels, row
\* after row; lines() cuts it into rows of fb.width pixels.
Pixel(b0, b1, b2, b3) == <<b0, b1, b2, b3>>

PixelIndex(fb, p) == p.y * fb.width + p.x + 1

\* The surface as render clears it.
ClearedBuffer(fb) == [i \in 1..(fb.width * fb.height) |-> Pixel(0, 0, 0, 0)]

\* a.wrapping_add(b) on u8
u8_wrapping_add(a, b) == (a + b) % 256

\* a.saturating_add(b) on u8
u8_saturating_add(a, b) == IF a + b > 255 THEN 255 ELSE a + b

\* A faulty blend: it adds the coverage whether or not the pixels differ.
blend_always_adds(dest, v) ==
    Pixel(dest[1],
          u8_saturating_add(dest[2], v),
          u8_saturating_add(dest[3], v),
          u8_saturating_add(dest[4], v))

\* The body of draw's inner loop, on the destination pixel dest and the
\* coverage byte v of the bitmap.
blend(dest, v) ==
    LET s == Pixel(0, v, v, v)
    IN  IF dest # s
        THEN Pixel(dest[1],
                   u8_saturating_add(dest[2], s[2]),
                   u8_saturating_add(dest[3], s[3]),
                   u8_saturating_add(dest[4], s[4]))
        ELSE dest

\* The buffer after a draw that did not panic: each destination pixel of
\* writes blended with the bitmap pixel paired with it.
draw_onto(buffer, fb, metrics, bitmap, writes) ==
    [i \in 1..Len(buffer) |->
        IF \E w \in writes : PixelIndex(fb, w.dest) = i
        THEN LET w == CHOOSE w \in writes : PixelIndex(fb, w.dest) = i
             IN  blend(buffer[i], bitmap[w.src.y * metrics.width + w.src.x + 1])
        ELSE buffer[i]]

\* v as usize, for an isize v: a negative value becomes v + 2^64.
as_usize(v) == IF v < 0 THEN v + UsizeModulus ELSE v

\* !b on u8
u8_not(b) == 255 - b

\* A faulty complement: it complements the top byte as well.
complement_all_bytes(pixel) ==
    Pixel(u8_not(pixel[1]), u8_not(pixel[2]), u8_not(pixel[3]), u8_not(pixel[4]))

\* The body of invert's inner loop.
complement(pixel) == Pixel(pixel[1], u8_not(pixel[2]), u8_not(pixel[3]), u8_not(pixel[4]))

\* lines() on the block of the cell coord, as invert calls it: the rows of
\* the surface from the block's top on, at most a cell height of them, each
\* sliced from the block's left over a cell width.  rows are the rows
\* yielded; panicked says that slicing a yielded row fails (the slice's end
\* overflows, lies before its start or lies beyond the row).
block_lines(fb, font_size, coord, overflow_checks) ==
    LET char_width == character_width(font_size)
        char_height == character_height(font_size)
        skipped == as_usize(coord.y * char_height)
        start == as_usize(coord.x * char_width)
        end == (start + char_width) % UsizeModulus
        rows == IF skipped >= fb.height THEN {}
                ELSE skipped..(Min(skipped + char_height, fb.height) - 1)
    IN  [rows |-> rows,
         columns |-> start..(end - 1),
         panicked |-> rows # {} /\ ~(start <= end /\ end <= fb.width)]

\* invert: the cells of bounding_box, offset by top_left, each complemented
\* over its block.  A panic ends the process: the buffer is then given as it
\* was before the call.
invert(buffer, fb, font_size, bounding_box, top_left, overflow_checks) ==
    LET first == CoordAdd(top_left, bounding_box.top_left)
        coords == {Coordinates(x, y) :
                     x \in first.x..(first.x + bounding_box.width - 1),
                     y \in first.y..(first.y + bounding_box.height - 1)}
        lines(coord) == block_lines(fb, font_size, coord, overflow_checks)
        panics == \E coord \in coords : lines(coord).panicked
        inverted == {PixelIndex(fb, Coordinates(x, y)) :
                       <<x, y>> \in UNION {lines(coord).columns \X lines(coord).rows :
                                            coord \in coords}}
    IN  [panicked |-> panics,
         buffer |-> IF panics THEN buffer
                    ELSE [i \in 1..Len(buffer) |->
                            IF i \in inverted THEN complement(buffer[i]) ELSE buffer[i]]]

\* The text-area side of Canvas::render: the status lines' viewports are
\* put back at (0, 0) by a direct write of bounding_box.top_left, then
\* chars() is called on the three areas.  (What render does to the pixels
\* is FrameBuffer::draw and FrameBuffer::invert.)
render(cv) ==
    LET origin == Coordinates(0, 0)
        top == [cv.top_line EXCEPT !.bounding_box.top_left = origin]
        bottom == [cv.bottom_line EXCEPT !.bounding_box.top_left = origin]
    IN  [cv EXCEPT !.top_line = chars(top).area,
                   !.draw_area = chars(cv.draw_area).area,
                   !.bottom_line = chars(bottom).area]

\* The RedrawRequested arm of App::run, for a window of width by height
\* pixels (both NonZeroU32): resize, then render.
redraw_requested(cv, width, height) == render(resize(cv, width, height))

\* App::top_line and App::bottom_line on their text area, for the text they
\* format (bottom_line writes nothing outside Extra mode).
status_line(ta, text) == write_string_at_cursor(clear(reset_cursor(ta)), text)

(* --------------------------------- Keys -------------------------------- *)

\* ModifiersState: the two states the key maps use.
NONE == "NONE"
CTRL == "CTRL"

\* Action, of the key maps.
CursorLeft == [kind |-> "CursorLeft"]
CursorRight == [kind |-> "CursorRight"]
CursorUp == [kind |-> "CursorUp"]
CursorDown == [kind |-> "CursorDown"]
DrawCharAtCursor(c) == [kind |-> "DrawCharAtCursor", c |-> c]
DeleteAtCursor == [kind |-> "DeleteAtCursor"]
ReduceFontSize == [kind |-> "ReduceFontSize"]
IncreaseFontSize == [kind |-> "IncreaseFontSize"]
UndoAction == [kind |-> "Undo"]
RedoAction == [kind |-> "Redo"]
Transition(mode) == [kind |-> "Transition", mode |-> mode]

\* InputMode: Box, Text, Color, or Extra with its code buffer.
BoxMode == [id |-> "Box", buffer |-> <<>>]
TextMode == [id |-> "Text", buffer |-> <<>>]
ColorMode == [id |-> "Color", buffer |-> <<>>]
ExtraMode(buffer) == [id |-> "Extra", buffer |-> buffer]

\* The entries the four maps of a layout (here Azerty) are made of.  Of the
\* block-character keys of BOX the model has the first three.  The strings of
\* the model are ASCII: "|" is the box character of "w" and "e'" the key of
\* the e with an acute accent.
BlockKeys ==
    (<<NONE, "Space">> :> <<DrawCharAtCursor(" ")>>)
    @@ (<<NONE, " ">> :> <<DrawCharAtCursor(" ")>>)
    @@ (<<NONE, "w">> :> <<DrawCharAtCursor("|")>>)

ControlKeys ==
    (<<NONE, "ArrowLeft">> :> <<CursorLeft>>)
    @@ (<<NONE, "ArrowRight">> :> <<CursorRight>>)
    @@ (<<NONE, "ArrowUp">> :> <<CursorUp>>)
    @@ (<<NONE, "ArrowDown">> :> <<CursorDown>>)
    @@ (<<NONE, "Delete">> :> <<DeleteAtCursor>>)
    @@ (<<CTRL, "z">> :> <<UndoAction>>)
    @@ (<<CTRL, "y">> :> <<RedoAction>>)

BackspaceKey == <<NONE, "Backspace">> :> <<CursorLeft, DeleteAtCursor>>

FontKeys ==
    (<<NONE, ")">> :> <<ReduceFontSize>>) @@ (<<NONE, "=">> :> <<IncreaseFontSize>>)

TransitionKeys ==
    (<<CTRL, "&">> :> <<Transition(BoxMode)>>)
    @@ (<<CTRL, "e'">> :> <<Transition(TextMode)>>)
    @@ (<<CTRL, "\"">> :> <<Transition(ColorMode)>>)
    @@ (<<CTRL, "'">> :> <<Transition(ExtraMode(<<>>))>>)

BOX == BlockKeys @@ ControlKeys @@ BackspaceKey @@ FontKeys @@ TransitionKeys
TEXT == ControlKeys @@ BackspaceKey @@ TransitionKeys
COLOR == ControlKeys @@ BackspaceKey @@ FontKeys @@ TransitionKeys
EXTRA == ControlKeys @@ FontKeys @@ TransitionKeys

\* KeyMap::translate
translate(mode, modifiers, key) ==
    LET map == CASE mode = "Box" -> BOX
                 [] mode = "Text" -> TEXT
                 [] mode = "Color" -> COLOR
                 [] mode = "Extra" -> EXTRA
    IN  IF <<modifiers, key>> \in DOMAIN map THEN Some(map[<<modifiers, key>>]) ELSE None

\* App, as far as keys change it: the canvas and the input mode.
App(cv, mode) == [canvas |-> cv, input_mode |-> mode]

\* A faulty handle_action: ReduceFontSize does not test the size it reduces.
handle_action_reduces_unchecked(app, action) ==
    LET on_draw_area(after) == [app EXCEPT !.canvas.draw_area = after]
        area == app.canvas.draw_area
    IN  CASE action.kind = "CursorLeft" -> on_draw_area(move_cursor(area, "Left"))
          [] action.kind = "CursorRight" -> on_draw_area(move_cursor(area, "Right"))
          [] action.kind = "CursorUp" -> on_draw_area(move_cursor(area, "Up"))
          [] action.kind = "CursorDown" -> on_draw_area(move_cursor(area, "Down"))
          [] action.kind = "DrawCharAtCursor" -> on_draw_area(write_at_cursor(area, action.c))
          [] action.kind = "DeleteAtCursor" -> on_draw_area(erase_at_cursor(area))
          [] action.kind = "ReduceFontSize" ->
                [app EXCEPT !.canvas = set_font_size(@, app.canvas.font_size - 4)]
          [] action.kind = "IncreaseFontSize" ->
                [app EXCEPT !.canvas = set_font_size(@, app.canvas.font_size + 4)]
          [] action.kind = "Undo" -> on_draw_area(undo(area))
          [] action.kind = "Redo" -> on_draw_area(redo(area))
          [] action.kind = "Transition" -> [app EXCEPT !.input_mode = action.mode]

\* App::handle_action.  The font size is in half pixels: 6.0 is 12 and a
\* step of 2.0 is 4.
handle_action(app, action) ==
    LET on_draw_area(after) == [app EXCEPT !.canvas.draw_area = after]
        area == app.canvas.draw_area
    IN  CASE action.kind = "CursorLeft" -> on_draw_area(move_cursor(area, "Left"))
          [] action.kind = "CursorRight" -> on_draw_area(move_cursor(area, "Right"))
          [] action.kind = "CursorUp" -> on_draw_area(move_cursor(area, "Up"))
          [] action.kind = "CursorDown" -> on_draw_area(move_cursor(area, "Down"))
          [] action.kind = "DrawCharAtCursor" -> on_draw_area(write_at_cursor(area, action.c))
          [] action.kind = "DeleteAtCursor" -> on_draw_area(erase_at_cursor(area))
          [] action.kind = "ReduceFontSize" ->
                IF app.canvas.font_size > 12
                THEN [app EXCEPT !.canvas = set_font_size(@, app.canvas.font_size - 4)]
                ELSE app
          [] action.kind = "IncreaseFontSize" ->
                [app EXCEPT !.canvas = set_font_size(@, app.canvas.font_size + 4)]
          [] action.kind = "Undo" -> on_draw_area(undo(area))
          [] action.kind = "Redo" -> on_draw_area(redo(area))
          [] action.kind = "Transition" -> [app EXCEPT !.input_mode = action.mode]

\* A faulty loop: it handles the last action of the list first.
RECURSIVE handle_actions_last_first(_, _)
handle_actions_last_first(app, actions) ==
    IF actions = <<>> \/ app.canvas.panicked THEN app
    ELSE handle_actions_last_first(handle_action(app, actions[Len(actions)]),
                                   SubSeq(actions, 1, Len(actions) - 1))

\* for action in actions { self.handle_action(action) }: a panic ends it.
RECURSIVE handle_actions(_, _)
handle_actions(app, actions) ==
    IF actions = <<>> \/ app.canvas.panicked THEN app
    ELSE handle_actions(handle_action(app, Head(actions)), Tail(actions))

(* --------------------------- The input channel ------------------------- *)

\* The characters of the model: a digit, a letter, a space, a punctuation
\* mark and the control character 8 (backspace).
Backspace8 == "\\b"
UniChars == {"1", "z", " ", "!", Backspace8}

is_control(c) == c = Backspace8
is_whitespace(c) == c = " "
is_ascii_alphanumeric(c) == c \in {"1", "z"}

\* InputAction
InputAction_Char(c) == [kind |-> "Char", c |-> c]
InputAction_Backspace == [kind |-> "Backspace"]

\* TextModeCallback::add_char: what it sends for a character, as a sequence
\* of at most one item.
TextModeCallback_add_char(c) == IF ~is_control(c) THEN <<c>> ELSE <<>>

\* ExtraInputBuffer::add_char (to_ascii_lowercase leaves the characters of
\* the model as they are).
ExtraInputBuffer_add_char(c) ==
    IF is_ascii_alphanumeric(c) \/ is_whitespace(c) THEN <<InputAction_Char(c)>>
    ELSE IF c = Backspace8 THEN <<InputAction_Backspace>>
    ELSE <<>>

\* A Segment is a byte of eight flags: here the set of the flags that are on.
char_to_segment(c) ==
    CASE c = "a" -> Some({"UP_LEFT"})
      [] c = "z" -> Some({"UP"})
      [] c = "e" -> Some({"UP_RIGHT"})
      [] c = "q" -> Some({"LEFT"})
      [] c = "d" -> Some({"RIGHT"})
      [] c = "w" -> Some({"DOWN_LEFT"})
      [] c = "x" -> Some({"DOWN"})
      [] c = "c" -> Some({"DOWN_RIGHT"})
      [] OTHER -> None

\* chars_to_segment: the flags of all the characters, or None when one of
\* them has none.
chars_to_segment(cs) ==
    IF \E i \in 1..Len(cs) : char_to_segment(cs[i]) = None THEN None
    ELSE Some(UNION { Unwrap(char_to_segment(cs[i])) : i \in 1..Len(cs) })

\* SEGMENTS: the two code points of a set of flags.
SEGMENTS ==
    ({"UP"} :> <<9589, 1049838>>)
    @@ ({"UP", "UP_LEFT", "UP_RIGHT", "DOWN_LEFT", "DOWN_RIGHT"} :> <<1049632, 1050048>>)

\* code_to_codepoint
code_to_codepoint(code) ==
    LET n == Len(code)
        first(cs) == IF chars_to_segment(cs) # None /\ Unwrap(chars_to_segment(cs)) \in DOMAIN SEGMENTS
                     THEN Some(SEGMENTS[Unwrap(chars_to_segment(cs))][1]) ELSE None
        second(cs) == IF chars_to_segment(cs) # None /\ Unwrap(chars_to_segment(cs)) \in DOMAIN SEGMENTS
                      THEN Some(SEGMENTS[Unwrap(chars_to_segment(cs))][2]) ELSE None
    IN  CASE n <= 1 -> None
          [] n = 2 /\ code[1] = "1" -> first(SubSeq(code, 2, 2))
          [] n = 3 /\ code[1] = "1" /\ code[3] = "s" -> second(SubSeq(code, 2, 2))
          [] n = 6 /\ code[1] = "5" -> first(SubSeq(code, 2, 6))
          [] n = 7 /\ code[1] = "5" /\ code[7] = "s" -> second(SubSeq(code, 2, 6))
          [] OTHER -> None

\* char::from_u32 on a code point of SEGMENTS: the character, written as the
\* digits of its code point.
char_from_u32(point) == ToString(point)

\* A faulty buffer_to_actions: it reads the code and leaves it in the buffer.
buffer_to_actions_keeps_code(mode) ==
    [mode |-> mode,
     actions |-> IF code_to_codepoint(mode.buffer) # None
                 THEN <<DrawCharAtCursor(char_from_u32(Unwrap(code_to_codepoint(mode.buffer))))>>
                 ELSE <<>>]

\* ExtraMode::buffer_to_actions: it takes the code out of the buffer, which
\* it leaves empty, and gives the character the code stands for, if any.
\* (The call passes the key map as a second argument, of which
\* code_to_codepoint makes no use.)
buffer_to_actions(mode) ==
    [mode |-> [mode EXCEPT !.buffer = <<>>],
     actions |-> IF code_to_codepoint(mode.buffer) # None
                 THEN <<DrawCharAtCursor(char_from_u32(Unwrap(code_to_codepoint(mode.buffer))))>>
                 ELSE <<>>]

\* Key::Named, as far as the model presses them; every other key is a
\* Key::Character of one character.
NamedKeys ==
    {"Backspace", "Delete", "ArrowLeft", "ArrowRight", "ArrowUp", "ArrowDown",
     "Space", "Enter"}

\* App::handle_raw_key.  It yields the actions and the app, whose code
\* buffer it may have changed.
handle_raw_key(app, key) ==
    LET mode == app.input_mode
        is_character == key \notin NamedKeys
        taken == buffer_to_actions(mode)
        code_taken == [app |-> [app EXCEPT !.input_mode = taken.mode],
                       actions |-> taken.actions]
    IN  CASE mode.id \in {"Box", "Color"} -> [app |-> app, actions |-> <<>>]
          [] mode.id = "Text" ->
                [app |-> app,
                 actions |-> IF is_character THEN <<DrawCharAtCursor(key), CursorRight>>
                             ELSE <<>>]
          [] mode.id = "Extra" ->
                IF is_character
                THEN IF is_whitespace(key)
                     THEN code_taken
                     ELSE [app |-> [app EXCEPT !.input_mode.buffer = Append(@, key)],
                           actions |-> <<>>]
                ELSE IF key \in {"Space", "Enter"}
                THEN code_taken
                ELSE IF key = "Backspace"
                THEN IF mode.buffer = <<>>
                     THEN [app |-> app, actions |-> <<CursorLeft, DeleteAtCursor>>]
                     ELSE [app |-> [app EXCEPT !.input_mode.buffer =
                                        SubSeq(@, 1, Len(@) - 1)],
                           actions |-> <<>>]
                ELSE [app |-> app, actions |-> <<>>]

\* The KeyboardInput arm of App::run for a pressed key: the actions the key
\* map gives for the key or, when it gives none, those of handle_raw_key,
\* handled one after the other.
key_pressed(app, modifiers, key) ==
    LET translated == translate(app.input_mode.id, modifiers, key)
        raw == handle_raw_key(app, key)
    IN  IF translated # None
        THEN handle_actions(app, Unwrap(translated))
        ELSE handle_actions(raw.app, raw.actions)

\* One turn of the loop of the Text arm of process_callbacks on every
\* character the channel holds.
RECURSIVE TextActions(_)
TextActions(pending) ==
    IF pending = <<>> THEN <<>>
    ELSE <<DrawCharAtCursor(Head(pending)), CursorRight>> \o TextActions(Tail(pending))

\* InputMode::process_callbacks on a mode and the content of its channel:
\* the actions returned, the mode and what is left on the channel.  (The
\* sender lives as long as the mode, so try_recv never reports Disconnected.)
process_callbacks(mode, pending) ==
    CASE mode.id = "Extra" ->
            IF pending = <<>>
            THEN [actions |-> <<>>, mode |-> mode, rx |-> pending]
            ELSE LET c == Head(pending)
                     left == Tail(pending)
                 IN  IF c.kind = "Char"
                     THEN IF is_whitespace(c.c)
                          THEN [actions |->
                                    IF code_to_codepoint(mode.buffer) # None
                                    THEN <<DrawCharAtCursor(
                                               char_from_u32(Unwrap(code_to_codepoint(mode.buffer))))>>
                                    ELSE <<>>,
                                mode |-> [mode EXCEPT !.buffer = <<>>],
                                rx |-> left]
                          ELSE [actions |-> <<>>,
                                mode |-> [mode EXCEPT !.buffer = Append(@, c.c)],
                                rx |-> left]
                     ELSE IF mode.buffer = <<>>
                          THEN [actions |-> <<CursorLeft, DeleteAtCursor>>,
                                mode |-> mode, rx |-> left]
                          ELSE [actions |-> <<>>,
                                mode |-> [mode EXCEPT !.buffer = SubSeq(@, 1, Len(@) - 1)],
                                rx |-> left]
      [] mode.id = "Text" ->
            [actions |-> TextActions(pending), mode |-> mode, rx |-> <<>>]
      [] OTHER -> [actions |-> <<>>, mode |-> mode, rx |-> pending]

VARIABLES
    font_size,      \* Canvas::font.font_size, in half pixels
    frame_buffer,   \* Canvas::frame_buffer: [width, height] in pixels
    top_line,       \* Canvas::top_line, a TextArea
    draw_area,      \* Canvas::draw_area, a TextArea
    bottom_line,    \* Canvas::bottom_line, a TextArea
    panicked,       \* a call has panicked: the process is gone
    last_call,      \* the call that produced the current state
    example_pos,    \* how many calls of the spec's example scenario have been made
    trip,           \* the progress of a round trip (writes, then undos, then
                    \* redos) or of a run of typed characters
    glyph,          \* the character draw is about to be given, if any
    atlas,          \* FontManager::atlas: the rasterized glyphs
    buffer,         \* the surface's pixels during a render (empty outside it)
    rect,           \* the rectangle invert is about to be given, if any
    input_mode,     \* App::input_mode
    modifiers,      \* App::modifiers
    rx              \* what was sent on the input channel and not yet received

vars == <<font_size, frame_buffer, top_line, draw_area, bottom_line, panicked,
          last_call, example_pos, trip, glyph, atlas, buffer, rect,
          input_mode, modifiers, rx>>

\* The state outside the canvas's layout and its text areas.
periphery == <<atlas, buffer, rect, input_mode, modifiers, rx>>

\* The canvas the variables hold, and the step that makes cv the canvas.
canvas ==
    [font_size |-> font_size, frame_buffer |-> frame_buffer, top_line |-> top_line,
     draw_area |-> draw_area, bottom_line |-> bottom_line, panicked |-> panicked]

CanvasIs(cv) ==
    /\ font_size = cv.font_size
    /\ frame_buffer = cv.frame_buffer
    /\ top_line = cv.top_line
    /\ draw_area = cv.draw_area
    /\ bottom_line = cv.bottom_line
    /\ panicked = cv.panicked

CanvasBecomes(cv) ==
    /\ font_size' = cv.font_size
    /\ frame_buffer' = cv.frame_buffer
    /\ top_line' = cv.top_line
    /\ draw_area' = cv.draw_area
    /\ bottom_line' = cv.bottom_line
    /\ panicked' = cv.panicked

\* A call: the method, its argument, the value it (or the History method
\* inside it) returned, and the edits History::add discarded during it.
Call(op, arg, ret, dropped) == [op |-> op, arg |-> arg, ret |-> ret, dropped |-> dropped]

NoArg == "-"

\* The cursor coordinates the model explores.
InBounds(ta) ==
    /\ ta.cursor_absolute_position.x \in 0..MaxX
    /\ ta.cursor_absolute_position.y \in 0..MaxY

\* There is room in the modelled edit log for one more History::add.
CanRecord(ta) == ta.history.cursor < MaxHist

\* HashMap::get
CharAt(ta, pos) ==
    IF pos \in DOMAIN ta.text_storage THEN Some(ta.text_storage[pos]) ELSE None

\* The edits a History::add on h discards: those from the cursor onward.
RedoTail(h) == SubSeq(h.changes, h.cursor + 1, Len(h.changes))

\* The example scenario of the spec (section 8), as calls on a fresh area of
\* 3 columns by 2 rows.
Example ==
    << <<"write_at_cursor", "A">>, <<"move_cursor", "Right">>, <<"write_at_cursor", "B">>,
       <<"chars", NoArg>>, <<"undo", NoArg>>, <<"chars", NoArg>>, <<"undo", NoArg>>,
       <<"chars", NoArg>>, <<"redo", NoArg>>, <<"redo", NoArg>>, <<"chars", NoArg>> >>

\* example_pos counts the calls made so far while they are exactly the
\* example's; it is -1 once a call departs from the example.
FollowExample(pos, op, arg) ==
    IF pos >= 0 /\ pos < Len(Example) /\ Example[pos + 1] = <<op, arg>>
    THEN pos + 1
    ELSE -1

\* No round trip is under way.
NoTrip ==
    [phase |-> "idle", n |-> 0, k |-> 0, fresh |-> TRUE,
     before |-> TextStorage_new, after |-> TextStorage_new]

(***************************************************************************)
(* Spec: the drawing area under the calls App::handle_action makes on it   *)
(* and under chars() and clear().  The canvas is built for a font of 2     *)
(* pixels on a surface of 3 by 8 pixels: the drawing area is 3 columns by  *)
(* 2 rows.                                                                 *)
(***************************************************************************)

NoCall == Call("new", NoArg, None, <<>>)

Init ==
    /\ CanvasIs(Canvas_new(4, 3, 8))
    /\ last_call = NoCall
    /\ example_pos = 0
    /\ trip = NoTrip
    /\ glyph = None
    /\ atlas = FontAtlas_new
    /\ buffer = <<>>
    /\ rect = None
    /\ input_mode = BoxMode
    /\ modifiers = NONE
    /\ rx = <<>>

\* A call on the drawing area that leaves it as `after`.
DrawAreaCall(after, call) ==
    /\ InBounds(after)
    /\ draw_area' = after
    /\ last_call' = call
    /\ example_pos' = FollowExample(example_pos, call.op, call.arg)
    /\ UNCHANGED <<font_size, frame_buffer, top_line, bottom_line, panicked, glyph>>
    /\ UNCHANGED periphery

OnDrawArea(after, call) == DrawAreaCall(after, call) /\ UNCHANGED trip

MoveCursor ==
    \E d \in Direction :
        OnDrawArea(move_cursor(draw_area, d), Call("move_cursor", d, None, <<>>))

WriteAtCursor ==
    /\ CanRecord(draw_area)
    /\ \E c \in Chars :
        OnDrawArea(write_at_cursor(draw_area, c),
                   Call("write_at_cursor", c, None, RedoTail(draw_area.history)))

EraseAtCursor ==
    LET old_char == CharAt(draw_area, draw_area.cursor_absolute_position)
    IN  /\ old_char # None => CanRecord(draw_area)
        /\ OnDrawArea(erase_at_cursor(draw_area),
                      Call("erase_at_cursor", NoArg, old_char,
                           IF old_char # None THEN RedoTail(draw_area.history) ELSE <<>>))

Undo ==
    OnDrawArea(undo(draw_area),
               Call("undo", NoArg, History_undo(draw_area.history).ret, <<>>))

Redo ==
    OnDrawArea(redo(draw_area),
               Call("redo", NoArg, History_redo(draw_area.history).ret, <<>>))

CharsCall ==
    OnDrawArea(chars(draw_area).area,
               Call("chars", NoArg, Some(chars(draw_area).ret), <<>>))

Clear ==
    OnDrawArea(clear(draw_area), Call("clear", NoArg, None, <<>>))

Next ==
    \/ MoveCursor
    \/ WriteAtCursor
    \/ EraseAtCursor
    \/ Undo
    \/ Redo
    \/ CharsCall
    \/ Clear

Spec == Init /\ [][Next]_vars

(***************************************************************************)
(* SpecSetSize: set_size on a drawing area in which a character has been   *)
(* written, between cursor moves (which scroll a narrow viewport) and      *)
(* chars() calls (which fill the view cache).                              *)
(***************************************************************************)

InitSetSize ==
    /\ \E c \in Chars :
        CanvasIs([Canvas_new(4, 3, 8) EXCEPT
                    !.draw_area = write_at_cursor(Canvas_new(4, 3, 8).draw_area, c)])
    /\ last_call = NoCall
    /\ example_pos = -1
    /\ trip = NoTrip
    /\ glyph = None
    /\ atlas = FontAtlas_new
    /\ buffer = <<>>
    /\ rect = None
    /\ input_mode = BoxMode
    /\ modifiers = NONE
    /\ rx = <<>>

SetSize ==
    \E width \in 0..MaxRect, height \in 0..MaxRect :
        OnDrawArea(set_size(draw_area, width, height),
                   Call("set_size", <<width, height>>, None, <<>>))

NextSetSize ==
    \/ SetSize
    \/ MoveCursor
    \/ CharsCall

SpecSetSize == InitSetSize /\ [][NextSetSize]_vars

(***************************************************************************)
(* SpecView: chars() on a drawing area whose view cache is empty, that is  *)
(* characters_in_bounding_box on the area's storage and viewport, for      *)
(* every storage of at most MaxStored characters in the cells of columns   *)
(* -1..MaxRect and rows 0..1 and every viewport of at most MaxRect by      *)
(* MaxRect cells whose top-left is in columns -1..1 and rows 0..1.         *)
(***************************************************************************)

ViewCells == {Coordinates(x, y) : x \in -1..MaxRect, y \in 0..1}

Storages ==
    UNION {[cells -> Chars] :
            cells \in {some \in SUBSET ViewCells : Cardinality(some) <= MaxStored}}

Viewports ==
    {BoundingBox_new(Coordinates(x, y), width, height) :
        x \in -1..1, y \in 0..1, width \in 0..MaxRect, height \in 0..MaxRect}

InitView ==
    /\ \E storage \in Storages, viewport \in Viewports :
        CanvasIs([Canvas_new(4, 3, 8) EXCEPT
                    !.draw_area.text_storage = storage,
                    !.draw_area.bounding_box = viewport,
                    !.draw_area.cursor_absolute_position = viewport.top_left])
    /\ last_call = NoCall
    /\ example_pos = -1
    /\ trip = NoTrip
    /\ glyph = None
    /\ atlas = FontAtlas_new
    /\ buffer = <<>>
    /\ rect = None
    /\ input_mode = BoxMode
    /\ modifiers = NONE
    /\ rx = <<>>

ViewChars ==
    /\ draw_area' = chars(draw_area).area
    /\ last_call' = Call("chars", NoArg, Some(chars(draw_area).ret), <<>>)
    /\ UNCHANGED <<font_size, frame_buffer, top_line, bottom_line, panicked,
                   example_pos, trip, glyph>>
    /\ UNCHANGED periphery

NextView == ViewChars

SpecView == InitView /\ [][NextView]_vars

(***************************************************************************)
(* SpecBox: BoundingBox::contains and BoundingBox::convert_to_relative on  *)
(* the drawing area's viewport and the cell of its one character, for      *)
(* viewports and cells at and near the limits of isize and usize.  On the  *)
(* x axis the coordinates and the sizes are the values next to each limit  *)
(* and to 0; on the y axis they are the limits and 0 or 1.                 *)
(***************************************************************************)

EdgeCoords == {IsizeMin, IsizeMin + 1, -1, 0, 1, IsizeMax - 1, IsizeMax}

EdgeSizes == {0, 1, 2, IsizeMax, IsizeMax + 1, UsizeMax - 1, UsizeMax}

InitBox ==
    /\ \E x \in EdgeCoords, y \in {IsizeMin, 0, IsizeMax},
          width \in EdgeSizes, height \in {0, 1, UsizeMax},
          px \in EdgeCoords, py \in {IsizeMin, 0, IsizeMax} :
        CanvasIs([Canvas_new(4, 3, 8) EXCEPT
                    !.draw_area.bounding_box =
                        BoundingBox_new(Coordinates(x, y), width, height),
                    !.draw_area.cursor_absolute_position = Coordinates(x, y),
                    !.draw_area.text_storage =
                        Upsert(TextStorage_new, Coordinates(px, py), "A")])
    /\ last_call = NoCall
    /\ example_pos = -1
    /\ trip = NoTrip
    /\ glyph = None
    /\ atlas = FontAtlas_new
    /\ buffer = <<>>
    /\ rect = None
    /\ input_mode = BoxMode
    /\ modifiers = NONE
    /\ rx = <<>>

\* A call on the viewport, with a cell of the storage for its point.
BoxCall(call) ==
    /\ last_call' = call
    /\ UNCHANGED <<font_size, frame_buffer, top_line, draw_area, bottom_line,
                   panicked, example_pos, trip, glyph>>
    /\ UNCHANGED periphery

Contains ==
    \E point \in DOMAIN draw_area.text_storage :
        BoxCall(Call("contains", point,
                     Some(BoundingBox_contains(draw_area.bounding_box, point)), <<>>))

ConvertToRelative ==
    \E point \in DOMAIN draw_area.text_storage, overflow_checks \in BOOLEAN :
        BoxCall(Call("convert_to_relative", point,
                     Some(BoundingBox_convert_to_relative(draw_area.bounding_box, point,
                                                          overflow_checks)), <<>>))

NextBox == Contains \/ ConvertToRelative

SpecBox == InitBox /\ [][NextBox]_vars

(***************************************************************************)
(* SpecScroll: the edits of Spec on a drawing area one column wide, as     *)
(* resize(1, 8) leaves it: every move to another column scrolls the view,  *)
(* so that edits made earlier lie outside it.                              *)
(***************************************************************************)

InitScroll ==
    /\ CanvasIs(resize(Canvas_new(4, 3, 8), 1, 8))
    /\ last_call = Call("resize", <<1, 8>>, None, <<>>)
    /\ example_pos = -1
    /\ trip = NoTrip
    /\ glyph = None
    /\ atlas = FontAtlas_new
    /\ buffer = <<>>
    /\ rect = None
    /\ input_mode = BoxMode
    /\ modifiers = NONE
    /\ rx = <<>>

NextScroll ==
    \/ MoveCursor
    \/ WriteAtCursor
    \/ EraseAtCursor
    \/ Undo
    \/ Redo

SpecScroll == InitScroll /\ [][NextScroll]_vars

(***************************************************************************)
(* SpecRoundTrip: from any state Spec reaches, a round trip: n >= 1        *)
(* write_at_cursor calls with cursor moves between them, then n undo()     *)
(* calls, then n redo() calls.  trip records the storage before the first  *)
(* write (before) and after the last (after), the number n of writes, the  *)
(* number k of them currently undone, and whether every write so far fell  *)
(* on a cell that held no character (fresh).                               *)
(***************************************************************************)

TripIdle == trip.phase = "idle" /\ Next

TripWrite ==
    /\ trip.phase \in {"idle", "writing"}
    /\ CanRecord(draw_area)
    /\ \E c \in Chars :
        DrawAreaCall(write_at_cursor(draw_area, c),
                     Call("write_at_cursor", c, None, RedoTail(draw_area.history)))
    /\ trip' = [trip EXCEPT
                  !.phase = "writing",
                  !.n = trip.n + 1,
                  !.before = IF trip.phase = "idle" THEN draw_area.text_storage
                             ELSE trip.before,
                  !.fresh = trip.fresh
                            /\ CharAt(draw_area, draw_area.cursor_absolute_position) = None]

TripMove ==
    /\ trip.phase = "writing"
    /\ \E d \in Direction :
        DrawAreaCall(move_cursor(draw_area, d), Call("move_cursor", d, None, <<>>))
    /\ UNCHANGED trip

TripUndo ==
    /\ trip.phase \in {"writing", "undoing"}
    /\ DrawAreaCall(undo(draw_area),
                    Call("undo", NoArg, History_undo(draw_area.history).ret, <<>>))
    /\ trip' = [trip EXCEPT
                  !.phase = IF trip.k + 1 = trip.n THEN "undone" ELSE "undoing",
                  !.k = trip.k + 1,
                  !.after = IF trip.phase = "writing" THEN draw_area.text_storage
                            ELSE trip.after]

TripRedo ==
    /\ trip.phase \in {"undone", "redoing"}
    /\ DrawAreaCall(redo(draw_area),
                    Call("redo", NoArg, History_redo(draw_area.history).ret, <<>>))
    /\ trip' = [trip EXCEPT
                  !.phase = IF trip.k = 1 THEN "redone" ELSE "redoing",
                  !.k = trip.k - 1]

NextRoundTrip ==
    \/ TripIdle
    \/ TripWrite
    \/ TripMove
    \/ TripUndo
    \/ TripRedo

SpecRoundTrip == Init /\ [][NextRoundTrip]_vars

\* C1 as claimed: after n writes (onto any cells, occupied or not) and n
\* undo() calls the storage is the mapping it was before the first write,
\* and after n further redo() calls it is the mapping it was after the last
\* write.
C1_RoundTripAnyCells ==
    /\ trip.phase = "undone" => draw_area.text_storage = trip.before
    /\ trip.phase = "redone" => draw_area.text_storage = trip.after

\* C1, amended: when every one of the n writes fell on a cell that held no
\* character, the n undo() calls return the storage to the mapping it had
\* before the first write; in every case the n redo() calls return it to
\* the mapping it had after the last write.
C1_RoundTripEmptyCells ==
    /\ (trip.phase = "undone" /\ trip.fresh) => draw_area.text_storage = trip.before
    /\ trip.phase = "redone" => draw_area.text_storage = trip.after

\* C1's case: two writes onto empty cells have been undone and redone.
C1_Witness ==
    /\ trip.phase = "redone"
    /\ trip.fresh
    /\ trip.n = 2
    /\ trip.after # trip.before

(***************************************************************************)
(* SpecPairs: the drawing area under writes, erasures, cursor moves, undo  *)
(* and redo, and from every state it reaches an undo() immediately         *)
(* followed by a redo(), or a redo() immediately followed by an undo().    *)
(* trip.fresh records whether every write so far fell on a cell that held  *)
(* no character.                                                           *)
(***************************************************************************)

PairEdit ==
    \/ MoveCursor
    \/ EraseAtCursor
    \/ Undo
    \/ Redo

PairWrite ==
    /\ CanRecord(draw_area)
    /\ \E c \in Chars :
        DrawAreaCall(write_at_cursor(draw_area, c),
                     Call("write_at_cursor", c, None, RedoTail(draw_area.history)))
    /\ trip' = [trip EXCEPT
                  !.fresh = trip.fresh
                            /\ CharAt(draw_area, draw_area.cursor_absolute_position) = None]

UndoThenRedo ==
    /\ draw_area.history.cursor > 0
    /\ OnDrawArea(redo(undo(draw_area)), Call("undo_redo", NoArg, None, <<>>))

RedoThenUndo ==
    /\ draw_area.history.cursor < Len(draw_area.history.changes)
    /\ OnDrawArea(undo(redo(draw_area)), Call("redo_undo", NoArg, None, <<>>))

NextPairs ==
    \/ PairEdit
    \/ PairWrite
    \/ UndoThenRedo
    \/ RedoThenUndo

SpecPairs == Init /\ [][NextPairs]_vars

\* What an undo() followed by a redo(), or a redo() followed by an undo(),
\* is claimed to keep: the storage, the log and the history cursor.
PairKeeps ==
    /\ draw_area'.text_storage = draw_area.text_storage
    /\ draw_area'.history = draw_area.history

\* C22 as claimed: whatever cells the writes fell on, undo() then redo() with
\* the history cursor above 0, and redo() then undo() with the history
\* cursor below the log's length, leave the storage, the log and the history
\* cursor as they were.
C22_PairsAnyWrites ==
    [][last_call'.op \in {"undo_redo", "redo_undo"} => PairKeeps]_vars

\* C22, amended: when every write so far fell on a cell that held no
\* character, undo() then redo() and redo() then undo() leave the storage,
\* the log and the history cursor as they were.
C22_PairsFreshWrites ==
    [][(last_call'.op \in {"undo_redo", "redo_undo"} /\ trip.fresh) => PairKeeps]_vars

\* C22's case: a redo() followed by an undo() has just been made on a
\* storage that holds a character, after writes onto empty cells only and
\* with an erasure in the log.
C22_Witness ==
    /\ last_call.op = "redo_undo"
    /\ trip.fresh
    /\ DOMAIN draw_area.text_storage # {}
    /\ \E i \in 1..Len(draw_area.history.changes) :
        draw_area.history.changes[i].kind = "RemovedChar"

(***************************************************************************)
(* SpecCanvas: the canvas under resize, set_font_size and render, with     *)
(* cursor moves on the drawing area between them.  Window sizes are        *)
(* NonZeroU32, so at least 1; font sizes below 2 pixels give a cell width  *)
(* of 0.                                                                   *)
(***************************************************************************)

InGrid(ta) ==
    /\ ta.cursor_absolute_position.x \in -MaxCursor..MaxCursor
    /\ ta.cursor_absolute_position.y \in -MaxCursor..MaxCursor

CanvasCall(cv, call) ==
    /\ ~panicked
    /\ InGrid(cv.draw_area)
    /\ CanvasBecomes(cv)
    /\ last_call' = call
    /\ example_pos' = -1
    /\ UNCHANGED <<trip, glyph>>
    /\ UNCHANGED periphery

Resize ==
    \E width \in 1..MaxWidth, height \in 1..MaxHeight :
        CanvasCall(resize(canvas, width, height),
                   Call("resize", <<width, height>>, None, <<>>))

SetFontSize ==
    \E value \in 0..MaxFont :
        CanvasCall(set_font_size(canvas, value),
                   Call("set_font_size", value, None, <<>>))

Render == CanvasCall(render(canvas), Call("render", NoArg, None, <<>>))

CanvasMoveCursor ==
    \E d \in Direction :
        CanvasCall([canvas EXCEPT !.draw_area = move_cursor(draw_area, d)],
                   Call("move_cursor", <<d, 1>>, None, <<>>))

CanvasMoveCursorBy ==
    \E d \in Direction, amount \in 0..MaxAmount :
        CanvasCall([canvas EXCEPT !.draw_area = move_cursor_by(draw_area, d, amount)],
                   Call("move_cursor_by", <<d, amount>>, None, <<>>))

NextCanvas ==
    \/ Resize
    \/ SetFontSize
    \/ Render
    \/ CanvasMoveCursor
    \/ CanvasMoveCursorBy

SpecCanvas == Init /\ [][NextCanvas]_vars

(***************************************************************************)
(* SpecRedraw: the canvas under RedrawRequested events, with cursor moves  *)
(* on the drawing area between them.  The window has the size of the       *)
(* surface or another size.  (The rewriting of the status lines that opens *)
(* every event is TopLine and BottomLine of SpecStatus; it leaves the      *)
(* drawing area alone.)                                                    *)
(***************************************************************************)

RedrawRequested ==
    \E size \in {<<frame_buffer.width, frame_buffer.height>>}
                \cup ((1..MaxWidth) \X (1..MaxHeight)) :
        CanvasCall(redraw_requested(canvas, size[1], size[2]),
                   Call("redraw", size, None, <<>>))

NextRedraw ==
    \/ RedrawRequested
    \/ CanvasMoveCursor
    \/ CanvasMoveCursorBy

SpecRedraw == Init /\ [][NextRedraw]_vars

(***************************************************************************)
(* SpecStatus: the two status lines under App::top_line and                *)
(* App::bottom_line, which rewrite them, under chars() called on them      *)
(* through the canvas's accessors, and under render.                       *)
(***************************************************************************)

\* The status texts: the first n characters of one line, n = 0..MaxStatus.
StatusText(n) == [i \in 1..n |-> IF i % 2 = 1 THEN "A" ELSE "B"]

CanRecordLine(ta, text) == Len(ta.history.changes) + Len(text) <= MaxStatusHist

TopLine ==
    \E n \in 0..MaxStatus :
        /\ CanRecordLine(top_line, StatusText(n))
        /\ CanvasCall([canvas EXCEPT !.top_line = status_line(top_line, StatusText(n))],
                      Call("top_line", n, None, <<>>))

BottomLine ==
    \E n \in 0..MaxStatus :
        /\ CanRecordLine(bottom_line, StatusText(n))
        /\ CanvasCall([canvas EXCEPT
                         !.bottom_line = status_line(bottom_line, StatusText(n))],
                      Call("bottom_line", n, None, <<>>))

TopLineChars ==
    CanvasCall([canvas EXCEPT !.top_line = chars(top_line).area],
               Call("chars", "top_line", Some(chars(top_line).ret), <<>>))

BottomLineChars ==
    CanvasCall([canvas EXCEPT !.bottom_line = chars(bottom_line).area],
               Call("chars", "bottom_line", Some(chars(bottom_line).ret), <<>>))

NextStatus ==
    \/ TopLine
    \/ BottomLine
    \/ TopLineChars
    \/ BottomLineChars
    \/ Render

SpecStatus == Init /\ [][NextStatus]_vars


(***************************************************************************)
(* SpecDraw: FrameBuffer::draw on one character, on the canvas as a resize *)
(* leaves it.  The character's cell, its glyph's metrics and whether the   *)
(* build checks arithmetic overflow are fixed at the start.                *)
(***************************************************************************)

\* The character draw is given: its cell, its glyph's metrics and bitmap,
\* and whether the build checks arithmetic overflow.
GlyphJob(cell, metrics, bitmap, checks) ==
    [cell |-> cell, metrics |-> metrics, bitmap |-> bitmap, overflow_checks |-> checks]

\* A bitmap of full coverage.
Opaque(metrics) == [i \in 1..(metrics.width * metrics.height) |-> 255]

Cells == {Coordinates(x, y) : x \in 0..MaxCell, y \in 0..MaxCell}

Glyphs ==
    {Metrics(width, height, xmin, ymin) :
        width \in 0..MaxGlyph, height \in 0..MaxGlyph,
        xmin \in -MaxBearing..MaxBearing, ymin \in -MaxBearing..MaxBearing}

InitDraw ==
    /\ \E width \in 1..MaxWidth, height \in 1..MaxHeight :
        /\ CanvasIs(resize(Canvas_new(4, 3, 8), width, height))
        /\ last_call = Call("resize", <<width, height>>, None, <<>>)
    /\ example_pos = -1
    /\ trip = NoTrip
    /\ glyph \in {Some(GlyphJob(cell, metrics, Opaque(metrics), checks)) :
                    cell \in Cells, metrics \in Glyphs, checks \in BOOLEAN}
    /\ atlas = FontAtlas_new
    /\ buffer = ClearedBuffer(frame_buffer)
    /\ rect = None
    /\ input_mode = BoxMode
    /\ modifiers = NONE
    /\ rx = <<>>

Draw ==
    /\ ~panicked
    /\ glyph # None
    /\ LET job == Unwrap(glyph)
           result == draw(frame_buffer, font_size, job.cell, job.metrics,
                          job.overflow_checks)
       IN  /\ panicked' = result.panicked
           /\ last_call' = Call("draw", job, Some(result), <<>>)
           /\ buffer' = draw_onto(buffer, frame_buffer, job.metrics, job.bitmap,
                                  result.writes)
    /\ glyph' = None
    /\ UNCHANGED <<font_size, frame_buffer, top_line, draw_area, bottom_line,
                   example_pos, trip, atlas, rect, input_mode, modifiers, rx>>

NextDraw == Draw

SpecDraw == InitDraw /\ [][NextDraw]_vars

(***************************************************************************)
(* SpecBlend: draw of a glyph of one pixel onto a surface of 2 by 2        *)
(* pixels, for every coverage byte and for destination pixels whose bytes  *)
(* are taken from ByteSamples.  At a cell size of 1 by 2 the glyph of      *)
(* cell (0, 0) lands on pixel (0, 1).                                      *)
(***************************************************************************)

ByteSamples == {0, 1, 128, 255}

InitBlend ==
    /\ CanvasIs(resize(Canvas_new(4, 3, 8), 2, 2))
    /\ last_call = Call("resize", <<2, 2>>, None, <<>>)
    /\ example_pos = -1
    /\ trip = NoTrip
    /\ glyph \in {Some(GlyphJob(Coordinates(0, 0), Metrics(1, 1, 0, 0), <<v>>, checks)) :
                    v \in 0..255, checks \in BOOLEAN}
    /\ atlas = FontAtlas_new
    /\ buffer \in {[ClearedBuffer(frame_buffer) EXCEPT ![3] = Pixel(b0, b1, b2, b3)] :
                    b0 \in ByteSamples, b1 \in ByteSamples,
                    b2 \in ByteSamples, b3 \in ByteSamples}
    /\ rect = None
    /\ input_mode = BoxMode
    /\ modifiers = NONE
    /\ rx = <<>>

SpecBlend == InitBlend /\ [][NextDraw]_vars

(***************************************************************************)
(* SpecRasterize: FontManager::rasterize on the characters drawn, with     *)
(* set_font_size changing the pixel size between calls.                    *)
(***************************************************************************)

Rasterize ==
    \E c \in GlyphChars :
        LET result == rasterize(atlas, font_size, c)
        IN  /\ ~panicked
            /\ atlas' = result.atlas
            /\ last_call' = Call("rasterize", c,
                                 Some([value |-> result.ret,
                                       engine_asked |-> result.engine_asked,
                                       cached |-> result.cached]), <<>>)
            /\ example_pos' = -1
            /\ UNCHANGED <<font_size, frame_buffer, top_line, draw_area, bottom_line,
                           panicked, trip, glyph, buffer, rect, input_mode, modifiers, rx>>

NextRasterize ==
    \/ Rasterize
    \/ SetFontSize

SpecRasterize == Init /\ [][NextRasterize]_vars

(***************************************************************************)
(* SpecInvert: FrameBuffer::invert, called twice with the same rectangle   *)
(* and origin, on the canvas as a resize leaves it.  The rectangle, the    *)
(* origin and the surface's pixels are fixed at the start; original keeps  *)
(* the pixels as they were before the first call and calls counts the      *)
(* calls made.                                                            *)
(***************************************************************************)

\* Surfaces whose pixels all differ from one another.
SampleBuffers(fb) ==
    {[i \in 1..(fb.width * fb.height) |-> Pixel(b0, (b1 + i) % 256, b1, u8_not(i))] :
        b0 \in {0, 255}, b1 \in {1, 128}}

Rects ==
    {BoundingBox_new(Coordinates(x, y), width, height) :
        x \in -1..MaxCell, y \in -1..MaxCell, width \in 0..MaxRect, height \in 0..MaxRect}

InitInvert ==
    /\ \E width \in 1..MaxWidth, height \in 1..MaxHeight :
        /\ CanvasIs(resize(Canvas_new(4, 3, 8), width, height))
        /\ last_call = Call("resize", <<width, height>>, None, <<>>)
    /\ example_pos = -1
    /\ trip = NoTrip
    /\ glyph = None
    /\ atlas = FontAtlas_new
    /\ buffer \in SampleBuffers(frame_buffer)
    /\ \E bounding_box \in Rects, y \in 0..1, checks \in BOOLEAN :
        rect = Some([bounding_box |-> bounding_box, top_left |-> Coordinates(0, y),
                     overflow_checks |-> checks, calls |-> 0, original |-> buffer])
    /\ input_mode = BoxMode
    /\ modifiers = NONE
    /\ rx = <<>>

Invert ==
    /\ ~panicked
    /\ rect # None
    /\ Unwrap(rect).calls < 2
    /\ LET job == Unwrap(rect)
           result == invert(buffer, frame_buffer, font_size, job.bounding_box,
                            job.top_left, job.overflow_checks)
       IN  /\ panicked' = result.panicked
           /\ buffer' = result.buffer
           /\ rect' = Some([job EXCEPT !.calls = job.calls + 1])
           /\ last_call' = Call("invert", job.calls + 1, Some(buffer), <<>>)
    /\ UNCHANGED <<font_size, frame_buffer, top_line, draw_area, bottom_line,
                   example_pos, trip, glyph, atlas, input_mode, modifiers, rx>>

NextInvert == Invert

SpecInvert == InitInvert /\ [][NextInvert]_vars

(***************************************************************************)
(* SpecKeys: the application under key presses and changes of the          *)
(* modifiers.  (The rewriting of the status lines that opens every event   *)
(* is TopLine and BottomLine of SpecStatus; it leaves the drawing area and *)
(* the input mode alone.)                                                  *)
(***************************************************************************)

\* The keys the model presses.
Keys ==
    {"w", "ArrowLeft", "ArrowRight", "Backspace", "e'", "\""}

KeyPressed ==
    \E key \in Keys :
        LET after == key_pressed(App(canvas, input_mode), modifiers, key)
        IN  /\ ~panicked
            /\ InBounds(after.canvas.draw_area)
            /\ Len(after.canvas.draw_area.history.changes) <= MaxKeyHist
            /\ Len(after.input_mode.buffer) <= MaxCode
            /\ CanvasBecomes(after.canvas)
            /\ input_mode' = after.input_mode
            /\ last_call' = Call("key", <<modifiers, key>>, Some(input_mode.id), <<>>)
            /\ example_pos' = -1
            /\ UNCHANGED <<trip, glyph, atlas, buffer, rect, modifiers, rx>>

ModifiersChanged ==
    \E state \in {NONE, CTRL} :
        /\ ~panicked
        /\ modifiers' = state
        /\ last_call' = Call("modifiers", state, None, <<>>)
        /\ example_pos' = -1
        /\ UNCHANGED <<font_size, frame_buffer, top_line, draw_area, bottom_line,
                       panicked, trip, glyph, atlas, buffer, rect, input_mode, rx>>

NextKeys ==
    \/ KeyPressed
    \/ ModifiersChanged

SpecKeys == Init /\ [][NextKeys]_vars

(***************************************************************************)
(* SpecExtra: the application under the keys that fill, read and empty the *)
(* code buffer of Extra mode: the characters of a code, the space          *)
(* character, the named keys Space, Enter and Backspace, and the key that  *)
(* (with Ctrl) enters Extra mode.                                          *)
(***************************************************************************)

ExtraKeys ==
    {"1", "z", " ", "Space", "Enter", "Backspace", "'"}

ExtraKeyPressed ==
    \E key \in ExtraKeys :
        LET after == key_pressed(App(canvas, input_mode), modifiers, key)
        IN  /\ ~panicked
            /\ InGrid(after.canvas.draw_area)
            /\ Len(after.canvas.draw_area.history.changes) <= MaxHist
            /\ Len(after.input_mode.buffer) <= MaxCode
            /\ CanvasBecomes(after.canvas)
            /\ input_mode' = after.input_mode
            /\ last_call' = Call("key", <<modifiers, key>>, Some(input_mode.id), <<>>)
            /\ example_pos' = -1
            /\ UNCHANGED <<trip, glyph, atlas, buffer, rect, modifiers, rx>>

NextExtra ==
    \/ ExtraKeyPressed
    \/ ModifiersChanged

SpecExtra == Init /\ [][NextExtra]_vars

(***************************************************************************)
(* SpecText: the application under keys in Text, Box and Color modes: two  *)
(* characters that no map translates, the named key Enter, a cursor key    *)
(* and the keys that (with Ctrl) enter the three modes.  The run of        *)
(* characters typed in Text mode since the last other key is kept, with    *)
(* the cell it started in.                                                 *)
(***************************************************************************)

TextKeys ==
    {"b", "k", "Enter", "ArrowLeft", "&", "e'", "\""}

TypedRun(start, typed) == [start |-> start, typed |-> typed]

\* The key is a character typed in Text mode that the map does not translate.
Typed(mode, state, key) ==
    /\ mode.id = "Text"
    /\ key \notin NamedKeys
    /\ translate(mode.id, state, key) = None

InitText ==
    /\ CanvasIs(Canvas_new(4, 3, 8))
    /\ last_call = NoCall
    /\ example_pos = -1
    /\ trip = TypedRun(Canvas_new(4, 3, 8).draw_area.cursor_absolute_position, <<>>)
    /\ glyph = None
    /\ atlas = FontAtlas_new
    /\ buffer = <<>>
    /\ rect = None
    /\ input_mode = BoxMode
    /\ modifiers = NONE
    /\ rx = <<>>

TextKeyPressed ==
    \E key \in TextKeys :
        LET after == key_pressed(App(canvas, input_mode), modifiers, key)
            area == after.canvas.draw_area
        IN  /\ ~panicked
            /\ area.cursor_absolute_position.x \in 0..MaxTyped
            /\ Len(area.history.changes) <= MaxTyped
            /\ CanvasBecomes(after.canvas)
            /\ input_mode' = after.input_mode
            /\ last_call' = Call("key", <<modifiers, key>>, Some(input_mode.id), <<>>)
            /\ example_pos' = -1
            /\ trip' = IF Typed(input_mode, modifiers, key)
                       THEN TypedRun(trip.start, Append(trip.typed, key))
                       ELSE TypedRun(area.cursor_absolute_position, <<>>)
            /\ UNCHANGED <<glyph, atlas, buffer, rect, modifiers, rx>>

NextText ==
    \/ TextKeyPressed
    \/ ModifiersChanged

SpecText == InitText /\ [][NextText]_vars

(***************************************************************************)
(* SpecFont: the application as main starts it, with a font of 24 pixels,  *)
(* under ReduceFontSize and IncreaseFontSize actions and resizes of the    *)
(* window.  The window's width and height are taken from SurfaceSizes      *)
(* (NonZeroU32: at least 1); the window the canvas is built for holds at   *)
(* least two rows of cells.                                                *)
(***************************************************************************)

SurfaceSizes == {1, 5, 12, 48, 64}

InitFont ==
    /\ \E width \in SurfaceSizes, height \in {48, 64} :
        CanvasIs(Canvas_new(48, width, height))
    /\ last_call = NoCall
    /\ example_pos = -1
    /\ trip = NoTrip
    /\ glyph = None
    /\ atlas = FontAtlas_new
    /\ buffer = <<>>
    /\ rect = None
    /\ input_mode = BoxMode
    /\ modifiers = NONE
    /\ rx = <<>>

\* A step on the canvas alone; the call records the font size before it.
FontCall(cv, op, arg) ==
    /\ ~panicked
    /\ CanvasBecomes(cv)
    /\ last_call' = Call(op, arg, Some(font_size), <<>>)
    /\ UNCHANGED <<example_pos, trip, glyph>>
    /\ UNCHANGED periphery

FontAction ==
    \E action \in {ReduceFontSize, IncreaseFontSize} :
        FontCall(handle_action(App(canvas, input_mode), action).canvas,
                 "handle_action", action.kind)

FontResize ==
    \E width \in SurfaceSizes, height \in SurfaceSizes :
        FontCall(resize(canvas, width, height), "resize", <<width, height>>)

NextFont == FontAction \/ FontResize

SpecFont == InitFont /\ [][NextFont]_vars

(***************************************************************************)
(* SpecNew: Canvas::new for every font size of cell width 1 or more up to  *)
(* MaxFont, every surface up to MaxWidth by MaxHeight pixels, and both     *)
(* builds, followed by the resizes and the cursor moves of SpecCanvas.      *)
(***************************************************************************)

InitNew ==
    /\ \E size \in 0..MaxFont, width \in 1..MaxWidth, height \in 1..MaxHeight,
          overflow_checks \in BOOLEAN :
        /\ character_width(size) >= 1
        /\ CanvasIs(Canvas_new_built(size, width, height, overflow_checks))
        /\ last_call = Call("Canvas::new", <<size, width, height>>,
                            Some(overflow_checks), <<>>)
    /\ example_pos = -1
    /\ trip = NoTrip
    /\ glyph = None
    /\ atlas = FontAtlas_new
    /\ buffer = <<>>
    /\ rect = None
    /\ input_mode = BoxMode
    /\ modifiers = NONE
    /\ rx = <<>>

NextNew == Resize \/ CanvasMoveCursor

SpecNew == InitNew /\ [][NextNew]_vars

(***************************************************************************)
(* SpecString: write_string_at_cursor on the drawing area, for every       *)
(* string over Chars of at most MaxString characters, on a viewport that   *)
(* set_size has made of any size up to MaxRect (narrow and empty ones      *)
(* included), between calls of undo().  A string is written while the      *)
(* cursor is within the model's bounds and the log has room for its edits. *)
(***************************************************************************)

InitString ==
    /\ \E width \in 0..MaxRect, height \in 0..MaxRect :
        /\ CanvasIs([Canvas_new(4, 3, 8) EXCEPT
                        !.draw_area = set_size(Canvas_new(4, 3, 8).draw_area,
                                               width, height)])
        /\ last_call = Call("set_size", <<width, height>>, None, <<>>)
    /\ example_pos = -1
    /\ trip = NoTrip
    /\ glyph = None
    /\ atlas = FontAtlas_new
    /\ buffer = <<>>
    /\ rect = None
    /\ input_mode = BoxMode
    /\ modifiers = NONE
    /\ rx = <<>>

Strings == UNION {[1..n -> Chars] : n \in 0..MaxString}

WriteString ==
    \E s \in Strings :
        /\ InBounds(draw_area)
        /\ draw_area.history.cursor + Len(s) <= MaxHist
        /\ draw_area' = write_string_at_cursor(draw_area, s)
        /\ last_call' = Call("write_string_at_cursor", s, None, <<>>)
        /\ example_pos' = -1
        /\ UNCHANGED <<font_size, frame_buffer, top_line, bottom_line, panicked,
                       trip, glyph>>
        /\ UNCHANGED periphery

NextString ==
    \/ WriteString
    \/ Undo

SpecString == InitString /\ [][NextString]_vars

(* ------------------------- claims on the edit log ---------------------- *)

\* The fields of a text area other than its view cache.
SameArea(a, b) ==
    /\ a.text_storage = b.text_storage
    /\ a.history = b.history
    /\ a.cursor_absolute_position = b.cursor_absolute_position
    /\ a.bounding_box = b.bounding_box

HistoryCursorInRange(ta) ==
    0 <= ta.history.cursor /\ ta.history.cursor <= Len(ta.history.changes)

\* The edit a write_at_cursor or an erase_at_cursor step records, if any.
Recorded(before, call) ==
    IF call.op = "write_at_cursor"
    THEN Some(AddedChar(before.cursor_absolute_position, call.arg))
    ELSE IF call.op = "erase_at_cursor" /\ call.ret # None
    THEN Some(RemovedChar(before.cursor_absolute_position, Unwrap(call.ret)))
    ELSE None

\* C4: an edit recorded while the history cursor is below the log's length
\* replaces every edit from the cursor onward: the log becomes its first
\* `cursor` edits followed by the new one, the cursor is at the end, and a
\* redo() there returns nothing and leaves the storage alone.  undo() and
\* redo() never change the log, redo() only ever returns the edit at the
\* cursor of the current log, and the cursor leaves the end of the log only
\* by an undo(): a discarded edit is never applied again.
C4_HistoryTruncation ==
    [][LET h == draw_area.history
           g == draw_area'.history
           new == Recorded(draw_area, last_call')
       IN  /\ (new # None /\ h.cursor < Len(h.changes)) =>
                /\ g.changes = Append(SubSeq(h.changes, 1, h.cursor), Unwrap(new))
                /\ g.cursor = Len(g.changes)
                /\ History_redo(g).ret = None
                /\ redo(draw_area').text_storage = draw_area'.text_storage
           /\ last_call'.op \in {"undo", "redo"} => g.changes = h.changes
           /\ (last_call'.op = "redo" /\ last_call'.ret # None) =>
                /\ h.cursor < Len(h.changes)
                /\ last_call'.ret = Some(h.changes[h.cursor + 1])
           /\ (h.cursor = Len(h.changes) /\ last_call'.op # "undo") =>
                g.cursor = Len(g.changes)
      ]_vars

\* C4's case: a write that discarded a pending redo entry has just been made.
C4_Witness ==
    /\ last_call.op = "write_at_cursor"
    /\ last_call.dropped # <<>>
    /\ draw_area.history.cursor = Len(draw_area.history.changes)

\* C5: the history cursor stays within 0..length of the log; undo() returns
\* an edit exactly when the cursor is above 0, and then the cursor goes down
\* by one; redo() returns an edit exactly when the cursor is below the
\* length, and then the cursor goes up by one.
C5_HistoryCursor ==
    /\ HistoryCursorInRange(draw_area)
    /\ [][LET h == draw_area.history
              g == draw_area'.history
          IN  /\ HistoryCursorInRange(draw_area')
              /\ last_call'.op = "undo" =>
                   /\ (last_call'.ret # None) <=> (h.cursor > 0)
                   /\ h.cursor > 0 => g.cursor = h.cursor - 1
              /\ last_call'.op = "redo" =>
                   /\ (last_call'.ret # None) <=> (h.cursor < Len(h.changes))
                   /\ h.cursor < Len(h.changes) => g.cursor = h.cursor + 1
         ]_vars

\* C5's case: an undo() has returned an edit and left the cursor strictly
\* between 0 and the length of the log.
C5_Witness ==
    /\ last_call.op = "undo"
    /\ last_call.ret # None
    /\ draw_area.history.cursor > 0
    /\ draw_area.history.cursor < Len(draw_area.history.changes)

\* C6: undo() with the history cursor at 0 and redo() with the history
\* cursor at the end of the log change nothing: storage, log, history
\* cursor, text cursor and viewport stay as they were.
C6_UndoRedoPastEnds ==
    [][LET h == draw_area.history
       IN  /\ (last_call'.op = "undo" /\ h.cursor = 0) =>
                /\ SameArea(draw_area', draw_area)
                /\ last_call'.ret = None
           /\ (last_call'.op = "redo" /\ h.cursor = Len(h.changes)) =>
                /\ SameArea(draw_area', draw_area)
                /\ last_call'.ret = None
      ]_vars

\* C6's case: an undo() has just been made with the cursor at 0, on an area
\* whose log holds edits to redo.
C6_Witness ==
    /\ last_call.op = "undo"
    /\ last_call.ret = None
    /\ draw_area.history.cursor = 0
    /\ Len(draw_area.history.changes) > 0

\* C7: erase_at_cursor() on a cell that holds no character records no edit,
\* discards no pending redo entry, and leaves storage, text cursor and
\* viewport as they were.
C7_EraseEmptyCell ==
    [][(/\ last_call'.op = "erase_at_cursor"
        /\ CharAt(draw_area, draw_area.cursor_absolute_position) = None)
       => SameArea(draw_area', draw_area)
      ]_vars

\* C7's case: an erase_at_cursor() has just been made on an empty cell while
\* the log held an edit to redo and the storage held a character.
C7_Witness ==
    /\ last_call.op = "erase_at_cursor"
    /\ last_call.ret = None
    /\ draw_area.history.cursor < Len(draw_area.history.changes)
    /\ DOMAIN draw_area.text_storage # {}

\* C8: on a fresh area of 3 columns by 2 rows, write 'A', move right, write
\* 'B': chars() yields ((0,0),'A') and ((1,0),'B'); after one undo() it
\* yields ((0,0),'A') alone, after a second undo() nothing, and after two
\* redo() both pairs again.
C8_Example ==
    LET a == <<Coordinates(0, 0), "A">>
        b == <<Coordinates(1, 0), "B">>
    IN  /\ example_pos = 4 => last_call.ret = Some({a, b})
        /\ example_pos = 6 => last_call.ret = Some({a})
        /\ example_pos = 8 => last_call.ret = Some({})
        /\ example_pos = 11 => last_call.ret = Some({a, b})

\* C8's case: the whole example has been run, down to its last chars().
C8_Witness ==
    /\ example_pos = Len(Example)
    /\ last_call.op = "chars"
    /\ draw_area.bounding_box.width = 3
    /\ draw_area.bounding_box.height = 2

(***************************************************************************)
(* SpecCallbacks: the input modes that receive typed characters over a     *)
(* channel.  A transition makes the mode and its channel; the callback of  *)
(* the mode sends on it; process_callbacks receives.                       *)
(***************************************************************************)

\* BoxMode::transition, TextMode::transition, ColorMode::transition and
\* ExtraMode::transition: the new mode, with a new channel.
ModeTransition ==
    \E mode \in {BoxMode, TextMode, ColorMode, ExtraMode(<<>>)} :
        /\ input_mode' = mode
        /\ rx' = <<>>
        /\ last_call' = Call("transition", mode.id, None, <<>>)
        /\ example_pos' = -1
        /\ UNCHANGED <<font_size, frame_buffer, top_line, draw_area, bottom_line,
                       panicked, trip, glyph, atlas, buffer, rect, modifiers>>

\* The callback of the current mode is given a character.
AddChar ==
    \E c \in UniChars :
        LET sent == CASE input_mode.id = "Text" -> TextModeCallback_add_char(c)
                      [] input_mode.id = "Extra" -> ExtraInputBuffer_add_char(c)
                      [] OTHER -> <<>>
        IN  /\ Len(rx) < MaxPending
            /\ rx' = rx \o sent
            /\ last_call' = Call("add_char", c, None, <<>>)
            /\ example_pos' = -1
            /\ UNCHANGED <<font_size, frame_buffer, top_line, draw_area, bottom_line,
                           panicked, trip, glyph, atlas, buffer, rect, modifiers,
                           input_mode>>

\* One poll.
ProcessCallbacks ==
    LET result == process_callbacks(input_mode, rx)
    IN  /\ Len(result.mode.buffer) <= MaxCode
        /\ input_mode' = result.mode
        /\ rx' = result.rx
        /\ last_call' = Call("process_callbacks", rx, Some(result.actions), <<>>)
        /\ example_pos' = -1
        /\ UNCHANGED <<font_size, frame_buffer, top_line, draw_area, bottom_line,
                       panicked, trip, glyph, atlas, buffer, rect, modifiers>>

NextCallbacks ==
    \/ ModeTransition
    \/ AddChar
    \/ ProcessCallbacks

SpecCallbacks == Init /\ [][NextCallbacks]_vars

(* --------------------------- claims on the box ------------------------- *)

\* The point lies in the half-open rectangle bb: top_left <= point <
\* top_left + (width, height), the sums being those of the integers.
InHalfOpen(bb, point) ==
    /\ bb.top_left.x <= point.x /\ point.x < bb.top_left.x + bb.width
    /\ bb.top_left.y <= point.y /\ point.y < bb.top_left.y + bb.height

\* C31: for every rectangle and every point, contains is true exactly when
\* the point lies in the half-open rectangle; convert_to_relative never
\* panics (its assertions hold) and returns point - top_left exactly when
\* the point lies in the rectangle, and nothing otherwise.
C31_HalfOpenBox ==
    LET bb == draw_area.bounding_box
    IN  /\ last_call.op = "contains" =>
                (Unwrap(last_call.ret) <=> InHalfOpen(bb, last_call.arg))
        /\ last_call.op = "convert_to_relative" =>
                /\ ~Unwrap(last_call.ret).panicked
                /\ Unwrap(last_call.ret).value =
                        IF InHalfOpen(bb, last_call.arg)
                        THEN Some(CoordSub(last_call.arg, bb.top_left))
                        ELSE None

(* ----------------------- claims on the editing calls ------------------- *)

\* The cells of a and b other than pos hold the same characters.
SameElsewhere(a, b, pos) ==
    /\ DOMAIN a.text_storage \ {pos} = DOMAIN b.text_storage \ {pos}
    /\ \A q \in DOMAIN a.text_storage \ {pos} : a.text_storage[q] = b.text_storage[q]

\* The text cursor and the viewport of a are those of b.
SameView(a, b) ==
    /\ a.cursor_absolute_position = b.cursor_absolute_position
    /\ a.bounding_box = b.bounding_box

\* The log g is the log h with exactly one edit recorded: the edits of h
\* below its cursor, then `change`, with the cursor at the end, one past the
\* cursor of h.
RecordedOne(h, g, change) ==
    /\ g.changes = Append(SubSeq(h.changes, 1, h.cursor), change)
    /\ g.cursor = h.cursor + 1
    /\ Len(g.changes) = h.cursor + 1

\* C26: write_at_cursor(c) leaves c in the cell of the cursor, whether or
\* not the cell held a character, changes no other cell, leaves the cursor
\* and the viewport as they were, and records exactly one AddedChar(cursor,
\* c): the history cursor and the log's length end one past the history
\* cursor's previous value.
C26_WriteAtCursor ==
    [][last_call'.op = "write_at_cursor" =>
        LET pos == draw_area.cursor_absolute_position
        IN  /\ CharAt(draw_area', pos) = Some(last_call'.arg)
            /\ SameElsewhere(draw_area', draw_area, pos)
            /\ SameView(draw_area', draw_area)
            /\ RecordedOne(draw_area.history, draw_area'.history,
                           AddedChar(pos, last_call'.arg))
      ]_vars

\* C26's case: a write has just replaced the other character in its cell:
\* the log holds the write of that character to the cell, then this write.
C26_Witness ==
    /\ last_call.op = "write_at_cursor"
    /\ draw_area.history.cursor = 2
    /\ LET pos == draw_area.cursor_absolute_position
           first == draw_area.history.changes[1]
       IN  /\ first.kind = "AddedChar"
           /\ first.pos = pos
           /\ first.c # last_call.arg
           /\ CharAt(draw_area, pos) = Some(last_call.arg)

C28_SetSize ==
    [][last_call'.op = "set_size" =>
        /\ draw_area'.bounding_box.width = last_call'.arg[1]
        /\ draw_area'.bounding_box.height = last_call'.arg[2]
        /\ draw_area'.bounding_box.top_left = draw_area.bounding_box.top_left
        /\ draw_area'.cursor_absolute_position = draw_area.bounding_box.top_left
        /\ draw_area'.view_cache = None
        /\ draw_area'.text_storage = draw_area.text_storage
        /\ draw_area'.history = draw_area.history
      ]_vars

\* C28's case: a set_size(2, 2) has just been made on a viewport scrolled
\* to (1, 0), over a storage and a log that hold a write: the cursor is on
\* the viewport's top-left.
C28_Witness ==
    /\ last_call.op = "set_size"
    /\ last_call.arg = <<2, 2>>
    /\ draw_area.bounding_box = BoundingBox_new(Coordinates(1, 0), 2, 2)
    /\ draw_area.cursor_absolute_position = Coordinates(1, 0)
    /\ DOMAIN draw_area.text_storage # {}
    /\ draw_area.history.cursor > 0

\* C30: chars() on an empty view cache, that is characters_in_bounding_box
\* on the storage and the viewport, yields the pair (p - top_left, c) for
\* every cell p of the storage inside the viewport, c being its character,
\* and for no cell outside it; it yields nothing else, every coordinate it
\* yields has 0 <= x < width and 0 <= y < height, and no coordinate is
\* yielded twice: there are as many pairs as cells inside the viewport.
C30_ViewQuery ==
    last_call.op = "chars" =>
        LET storage == draw_area.text_storage
            bb == draw_area.bounding_box
            ret == Unwrap(last_call.ret)
            Inside(p) ==
                /\ bb.top_left.x <= p.x /\ p.x < bb.top_left.x + bb.width
                /\ bb.top_left.y <= p.y /\ p.y < bb.top_left.y + bb.height
        IN  /\ \A p \in DOMAIN storage :
                Inside(p) <=> (<<CoordSub(p, bb.top_left), storage[p]>> \in ret)
            /\ \A pair \in ret :
                /\ \E p \in DOMAIN storage : pair = <<CoordSub(p, bb.top_left), storage[p]>>
                /\ 0 <= pair[1].x /\ pair[1].x < bb.width
                /\ 0 <= pair[1].y /\ pair[1].y < bb.height
            /\ \A a \in ret, b \in ret : a[1] = b[1] => a = b
            /\ Cardinality(ret) = Cardinality({p \in DOMAIN storage : Inside(p)})

\* C30's case: chars() on a viewport whose top-left is (1, 1) has yielded
\* the character of cell (2, 1) at (1, 0) and has left out the other
\* character of the storage, which lies outside the viewport.
C30_Witness ==
    /\ last_call.op = "chars"
    /\ draw_area.bounding_box.top_left = Coordinates(1, 1)
    /\ Cardinality(DOMAIN draw_area.text_storage) = 2
    /\ Unwrap(last_call.ret) = {<<Coordinates(1, 0), "B">>}

\* C32: undo() and redo() leave the text cursor, the viewport's top-left and
\* the viewport's size as they were, whatever edit they apply, also when the
\* edit's cell lies outside the viewport: the view does not scroll to it.
C32_UndoRedoKeepView ==
    [][last_call'.op \in {"undo", "redo"} => SameView(draw_area', draw_area)]_vars

\* C32's case: an undo() has just taken back a write to a cell outside the
\* viewport: the cell is empty and the viewport does not contain it.
C32_Witness ==
    /\ last_call.op = "undo"
    /\ last_call.ret # None
    /\ Unwrap(last_call.ret).kind = "AddedChar"
    /\ ~contains(draw_area.bounding_box, Unwrap(last_call.ret).pos)
    /\ CharAt(draw_area, Unwrap(last_call.ret).pos) = None
    /\ contains(draw_area.bounding_box, draw_area.cursor_absolute_position)

\* C33: from the font size 24 and under any ReduceFontSize, IncreaseFontSize
\* and resize, the font size stays at least 6 (12 half pixels), the cell at
\* least 6 pixels high and 3 wide, and no layout divides by 0 (the only
\* panic of set_font_size and resize in the model).
C33_FontSizeFloor ==
    /\ font_size >= 12
    /\ character_height(font_size) >= 6
    /\ character_width(font_size) >= 3
    /\ ~panicked

\* C33's case: a ReduceFontSize has just been refused at the font size 6,
\* on a surface on which a smaller font would have been laid out.
C33_Witness ==
    /\ last_call.op = "handle_action"
    /\ last_call.arg = "ReduceFontSize"
    /\ last_call.ret = Some(12)
    /\ font_size = 12
    /\ frame_buffer.width >= 12 /\ frame_buffer.height >= 12

\* C34: Canvas::new, for a font whose cell is at least 1 pixel wide,
\* completes on every surface, and gives the drawing area the number of
\* rows of cells that fit less 2, or 0 when fewer than 2 rows fit.
C34_NewWithoutUnderflow ==
    last_call.op = "Canvas::new" =>
        LET rows == frame_buffer.height \div character_height(font_size)
        IN  /\ ~panicked
            /\ draw_area.bounding_box.height = IF rows < 2 THEN 0 ELSE rows - 2

\* What write_string_at_cursor(s) is to leave, from the area `before`, on a
\* viewport that `scrolled` says must contain the cursor: s[i] in the cell i
\* columns right of the old cursor, the cursor Len(s) columns right of it on
\* the same row, and, unless s is empty, the log as it was below its cursor
\* followed by one AddedChar per character, in the string's order (an empty
\* s leaves the log as it was).
WroteString(before, after, s, scrolled) ==
    LET n == Len(s)
        start == before.cursor_absolute_position
        cell(i) == Coordinates(start.x + i, start.y)
        h == before.history
    IN  /\ \A i \in 0..(n - 1) : CharAt(after, cell(i)) = Some(s[i + 1])
        /\ after.cursor_absolute_position = cell(n)
        /\ scrolled => contains(after.bounding_box, after.cursor_absolute_position)
        /\ after.history.changes
                = IF n = 0 THEN h.changes
                  ELSE SubSeq(h.changes, 1, h.cursor)
                           \o [i \in 1..n |-> AddedChar(cell(i - 1), s[i])]
        /\ after.history.cursor = h.cursor + n

\* C35 as stated: write_string_at_cursor(s) leaves the string in the cells
\* from the cursor rightward, the cursor after its last character, one
\* AddedChar per character in the log, and the cursor inside the viewport,
\* whatever the viewport.
C35_StringAnyView ==
    [][last_call'.op = "write_string_at_cursor"
        => WroteString(draw_area, draw_area', last_call'.arg, TRUE)]_vars

\* C35, for a viewport of width >= 1 and height >= 1: as above; on a
\* viewport of width 0 or height 0 the same without the containment.
C35_StringNonEmptyView ==
    [][last_call'.op = "write_string_at_cursor"
        => WroteString(draw_area, draw_area', last_call'.arg,
                       draw_area.bounding_box.width >= 1
                           /\ draw_area.bounding_box.height >= 1)]_vars

\* C35's case: a string of MaxString characters has just been written on a
\* viewport one column wide, which has scrolled after the cursor, and the
\* log holds one edit per character.
C35_Witness ==
    /\ last_call.op = "write_string_at_cursor"
    /\ Len(last_call.arg) = MaxString
    /\ draw_area.bounding_box.width = 1
    /\ draw_area.bounding_box.height >= 1
    /\ draw_area.bounding_box.top_left.x >= MaxString
    /\ draw_area.history.cursor = MaxString
    /\ Len(draw_area.history.changes) = MaxString
    /\ draw_area.text_storage[Coordinates(draw_area.cursor_absolute_position.x - 1, 0)]
            = last_call.arg[MaxString]

\* C29: clear() empties the storage and the view cache and leaves the log,
\* the history cursor, the text cursor and the viewport as they were; an
\* undo() or a redo() made on an area whose storage a clear() has emptied
\* still moves the history cursor and applies the edit it returns to the
\* storage.
C29_Clear ==
    [][/\ last_call'.op = "clear" =>
            /\ draw_area'.text_storage = TextStorage_new
            /\ draw_area'.view_cache = None
            /\ draw_area'.history = draw_area.history
            /\ SameView(draw_area', draw_area)
       /\ (last_call.op = "clear" /\ last_call'.op = "undo" /\ last_call'.ret # None) =>
            /\ draw_area'.history.cursor = draw_area.history.cursor - 1
            /\ draw_area'.text_storage = Revert(TextStorage_new, Unwrap(last_call'.ret))
       /\ (last_call.op = "clear" /\ last_call'.op = "redo" /\ last_call'.ret # None) =>
            /\ draw_area'.history.cursor = draw_area.history.cursor + 1
            /\ draw_area'.text_storage = Apply(TextStorage_new, Unwrap(last_call'.ret))
      ]_vars

\* C29's case: a redo() made right after a clear() has put its character in
\* the emptied storage: the log holds two writes to two cells, both below
\* the history cursor, and the storage holds the second alone.
C29_Witness ==
    /\ last_call.op = "redo"
    /\ last_call.ret # None
    /\ draw_area.history.cursor = 2
    /\ LET first == draw_area.history.changes[1]
           second == draw_area.history.changes[2]
       IN  /\ first.kind = "AddedChar" /\ second.kind = "AddedChar"
           /\ first.pos # second.pos
           /\ DOMAIN draw_area.text_storage = {second.pos}

(* ------------------------------ claims on keys ------------------------- *)

\* Backspace has just been pressed, with no modifier, in Box, Text or Color
\* mode, where the key map gives [CursorLeft, DeleteAtCursor] for it.
BackspacePressed(call) ==
    /\ call.op = "key"
    /\ call.arg = <<NONE, "Backspace">>
    /\ call.ret \in {Some("Box"), Some("Text"), Some("Color")}

\* C16: the actions of one key press are applied in list order, each on what
\* the one before left: Backspace in Box, Text and Color modes moves the
\* cursor one cell left and then erases at the new cursor position, recording
\* the character it removed there; every other cell, the cell at the original
\* cursor position among them, keeps what it held.
C16_ActionsInListOrder ==
    [][BackspacePressed(last_call') =>
         LET origin == draw_area.cursor_absolute_position
             target == CoordAdd(origin, vector("Left"))
             held == CharAt(draw_area, target)
         IN  /\ draw_area'.cursor_absolute_position = target
             /\ draw_area'.text_storage = Remove(draw_area.text_storage, target)
             /\ CharAt(draw_area', origin) = CharAt(draw_area, origin)
             /\ draw_area'.history =
                    IF held # None
                    THEN History_add(draw_area.history, RemovedChar(target, Unwrap(held)))
                    ELSE draw_area.history
      ]_vars

\* C16's case: Backspace has just erased the character to the left of a cell
\* that holds a character, and that cell still holds it.
C16_Witness ==
    /\ BackspacePressed(last_call)
    /\ draw_area.history.cursor > 0
    /\ LET last == draw_area.history.changes[draw_area.history.cursor]
           here == draw_area.cursor_absolute_position
       IN  /\ last = RemovedChar(here, last.c)
           /\ CharAt(draw_area, here) = None
           /\ CharAt(draw_area, CoordAdd(here, vector("Right"))) # None

\* C36: in Extra mode, of a key that reaches handle_raw_key: a character
\* that is not whitespace is appended to the code buffer and no action is
\* emitted; a whitespace character, Space or Enter leaves the buffer empty
\* and emits at most one action, a DrawCharAtCursor, and none when the
\* buffered code does not decode; Backspace on a buffer that is not empty
\* removes its last character and emits no action; Backspace on an empty
\* buffer leaves it empty and emits [CursorLeft, DeleteAtCursor].  And a key
\* whose actions hold a Transition into Extra mode leaves an empty buffer.
C36_ExtraBuffer ==
    [][last_call'.op = "key" =>
         LET key == last_call'.arg[2]
             translated == translate(input_mode.id, modifiers, key)
             raw == handle_raw_key(App(canvas, input_mode), key)
             code == input_mode.buffer
             origin == draw_area.cursor_absolute_position
         IN  /\ (translated = None /\ input_mode.id = "Extra") =>
                   CASE key \notin NamedKeys /\ ~is_whitespace(key) ->
                            /\ input_mode' = ExtraMode(Append(code, key))
                            /\ raw.actions = <<>>
                            /\ draw_area' = draw_area
                     [] is_whitespace(key) \/ key \in {"Space", "Enter"} ->
                            /\ input_mode' = ExtraMode(<<>>)
                            /\ Len(raw.actions) <= 1
                            /\ \A i \in DOMAIN raw.actions :
                                    raw.actions[i].kind = "DrawCharAtCursor"
                            /\ code_to_codepoint(code) = None
                                    => raw.actions = <<>> /\ draw_area' = draw_area
                            /\ draw_area'.cursor_absolute_position = origin
                            /\ SameElsewhere(draw_area, draw_area', origin)
                     [] key = "Backspace" /\ code # <<>> ->
                            /\ input_mode' = ExtraMode(SubSeq(code, 1, Len(code) - 1))
                            /\ raw.actions = <<>>
                            /\ draw_area' = draw_area
                     [] key = "Backspace" /\ code = <<>> ->
                            /\ input_mode' = ExtraMode(<<>>)
                            /\ raw.actions = <<CursorLeft, DeleteAtCursor>>
                            /\ draw_area'.cursor_absolute_position
                                    = CoordAdd(origin, vector("Left"))
                     [] OTHER -> TRUE
             /\ (/\ translated # None
                 /\ \E i \in DOMAIN Unwrap(translated) :
                        /\ Unwrap(translated)[i].kind = "Transition"
                        /\ Unwrap(translated)[i].mode.id = "Extra")
                    => input_mode' = ExtraMode(<<>>)
      ]_vars

\* C36's case: Enter has just read the code "1z" out of the buffer, which
\* is empty now, and the character of the code is in the cell at the cursor.
C36_Witness ==
    /\ last_call = Call("key", <<NONE, "Enter">>, Some("Extra"), <<>>)
    /\ input_mode = ExtraMode(<<>>)
    /\ CharAt(draw_area, draw_area.cursor_absolute_position)
            = Some(char_from_u32(SEGMENTS[{"UP"}][1]))

\* C37: in Text mode a typed character c that the key map does not
\* translate gives [DrawCharAtCursor(c), CursorRight], in that order: c is in
\* the cell the cursor was in, the cursor is one cell to its right and every
\* other cell is as it was; so that after a run of typed characters c1..cn
\* begun with the cursor at (x, y), ci is at (x + i - 1, y) for every i and
\* the cursor is at (x + n, y).  In Box and Color modes a key that the key
\* map does not translate gives no action, and nothing changes.
C37_TypedPairs ==
    /\ [](\A i \in 1..Len(trip.typed) :
            /\ CharAt(draw_area, Coordinates(trip.start.x + i - 1, trip.start.y))
                    = Some(trip.typed[i])
            /\ draw_area.cursor_absolute_position
                    = Coordinates(trip.start.x + Len(trip.typed), trip.start.y))
    /\ [][last_call'.op = "key" =>
            LET key == last_call'.arg[2]
                raw == handle_raw_key(App(canvas, input_mode), key)
                origin == draw_area.cursor_absolute_position
            IN  /\ Typed(input_mode, modifiers, key) =>
                      /\ raw.actions = <<DrawCharAtCursor(key), CursorRight>>
                      /\ CharAt(draw_area', origin) = Some(key)
                      /\ draw_area'.cursor_absolute_position
                              = CoordAdd(origin, vector("Right"))
                      /\ SameElsewhere(draw_area, draw_area', origin)
                /\ (/\ input_mode.id \in {"Box", "Color"}
                    /\ translate(input_mode.id, modifiers, key) = None) =>
                      /\ raw.actions = <<>>
                      /\ UNCHANGED <<font_size, frame_buffer, top_line, draw_area,
                                     bottom_line, panicked, input_mode, modifiers>>
       ]_vars

\* C37's case: MaxTyped characters, not all the same, have just been typed
\* in a row in Text mode, and the cursor is past the last of them.
C37_Witness ==
    /\ input_mode = TextMode
    /\ last_call.op = "key"
    /\ Len(trip.typed) = MaxTyped
    /\ trip.typed[1] # trip.typed[MaxTyped]
    /\ draw_area.cursor_absolute_position = Coordinates(trip.start.x + MaxTyped, 0)

\* C17: a process_callbacks() pass receives every character the callback
\* has sent before it, in Text mode and in Extra mode alike: the channel is
\* empty after the pass, and in Text mode the actions returned are those of
\* the characters sent, in the order sent.
C17_PassDrainsChannel ==
    last_call.op = "process_callbacks" =>
        /\ rx = <<>>
        /\ input_mode.id = "Text" => last_call.ret = Some(TextActions(last_call.arg))

\* C18: undo() with the history cursor k > 0 returns edit k-1 of the log and
\* applies its inverse, redo() with k below the log's length returns edit k
\* and applies it: after undoing AddedChar(p, c) or redoing RemovedChar(p, c)
\* no character is at p, after undoing RemovedChar(p, c) or redoing
\* AddedChar(p, c) c is at p; every cell other than p holds what it held and
\* the log is the same sequence.
C18_UndoRedoEdits ==
    [][LET h == draw_area.history
           cells == DOMAIN draw_area.text_storage \cup DOMAIN draw_area'.text_storage
           Effect(edit, forward) ==
               /\ last_call'.ret = Some(edit)
               /\ CharAt(draw_area', edit.pos) =
                      IF (edit.kind = "AddedChar") = forward THEN Some(edit.c) ELSE None
               /\ \A q \in cells \ {edit.pos} : CharAt(draw_area', q) = CharAt(draw_area, q)
               /\ draw_area'.history.changes = h.changes
       IN  /\ (last_call'.op = "undo" /\ h.cursor > 0) =>
                Effect(h.changes[h.cursor], FALSE)
           /\ (last_call'.op = "redo" /\ h.cursor < Len(h.changes)) =>
                Effect(h.changes[h.cursor + 1], TRUE)
      ]_vars

\* C18's case: a redo() has just applied a RemovedChar edit again, after the
\* undo() that had put the character back.
C18_Witness ==
    /\ last_call.op = "redo"
    /\ last_call.ret # None
    /\ LET edit == Unwrap(last_call.ret)
       IN  /\ edit.kind = "RemovedChar"
           /\ CharAt(draw_area, edit.pos) = None
           /\ draw_area.history.changes[draw_area.history.cursor] = edit

(* --------------------- claims on the view and the layout --------------- *)

\* The stored characters inside the viewport, relative to its top-left.
Visible(ta) == characters_in_bounding_box(ta.text_storage, ta.bounding_box)

\* C2: what chars() returns is, as a set, the stored characters inside the
\* current viewport, relative to its current top-left: for a chars() call
\* made on a status line, and for the three chars() calls render makes
\* after it has put the status lines' viewports back at (0, 0).
C2_CacheCoherence ==
    /\ (last_call.op = "chars" /\ last_call.arg = "top_line")
        => last_call.ret = Some(Visible(top_line))
    /\ (last_call.op = "chars" /\ last_call.arg = "bottom_line")
        => last_call.ret = Some(Visible(bottom_line))
    /\ last_call.op = "render"
        => /\ top_line.view_cache = Some(Visible(top_line))
           /\ draw_area.view_cache = Some(Visible(draw_area))
           /\ bottom_line.view_cache = Some(Visible(bottom_line))

AfterMove == last_call.op \in {"move_cursor", "move_cursor_by"}

CursorInView(ta) == contains(ta.bounding_box, ta.cursor_absolute_position)

\* C3 as claimed: right after move_cursor or move_cursor_by the viewport
\* contains the cursor, whatever the viewport's size, 0 included.
C3_CursorInAnyView == AfterMove => CursorInView(draw_area)

\* C3, amended: right after move_cursor or move_cursor_by on an area of
\* width >= 1 and height >= 1, the viewport contains the cursor.
C3_CursorInNonEmptyView ==
    (/\ AfterMove
     /\ draw_area.bounding_box.width >= 1
     /\ draw_area.bounding_box.height >= 1) => CursorInView(draw_area)

\* C3's case: a move_cursor_by of 2 cells has just scrolled a viewport of at
\* least one column and one row.
C3_Witness ==
    /\ last_call.op = "move_cursor_by"
    /\ last_call.arg[2] = 2
    /\ draw_area.bounding_box.width >= 1
    /\ draw_area.bounding_box.height >= 1
    /\ draw_area.bounding_box.top_left # Coordinates(0, 0)

\* Where the top-left of an axis goes for a cursor at cur: it stays when the
\* cursor is inside, goes to the cursor when the cursor is below the low
\* edge, and to cursor - (size - 1) when the cursor is past the high edge.
NearestEdge(top, size, cur) ==
    IF cur < top THEN cur
    ELSE IF cur >= top + size THEN cur - (size - 1)
    ELSE top

\* C19: on a viewport of width >= 1 and height >= 1 that contains the cursor,
\* move_cursor and move_cursor_by move the cursor by the given cells and, on
\* each axis by itself, leave the top-left alone when the moved cursor is
\* inside the viewport and otherwise put the nearest edge on the cursor;
\* width and height do not change.
C19_MinimalShift ==
    [][(/\ last_call'.op \in {"move_cursor", "move_cursor_by"}
        /\ draw_area.bounding_box.width >= 1
        /\ draw_area.bounding_box.height >= 1
        /\ CursorInView(draw_area))
       => LET bb == draw_area.bounding_box
              cur == CoordAdd(draw_area.cursor_absolute_position,
                              CoordScale(vector(last_call'.arg[1]), last_call'.arg[2]))
          IN  /\ draw_area'.cursor_absolute_position = cur
              /\ draw_area'.bounding_box =
                     BoundingBox_new(
                         Coordinates(NearestEdge(bb.top_left.x, bb.width, cur.x),
                                     NearestEdge(bb.top_left.y, bb.height, cur.y)),
                         bb.width, bb.height)
      ]_vars

\* C19's case: a move of two cells to the right has taken the cursor past
\* the right edge of a viewport two columns wide, which followed it by one
\* column.
C19_Witness ==
    /\ last_call.op = "move_cursor_by"
    /\ last_call.arg = <<"Right", 2>>
    /\ draw_area.bounding_box.width = 2
    /\ draw_area.cursor_absolute_position.x = 1
    /\ draw_area.bounding_box.top_left.x = 0

\* The cursor of a text area, relative to its viewport, is on one of the
\* viewport's cells.
CursorOnACell(ta) ==
    LET relative == cursor_relative_position(ta)
    IN  /\ 0 <= relative.x /\ relative.x < ta.bounding_box.width
        /\ 0 <= relative.y /\ relative.y < ta.bounding_box.height

\* C20: in every reachable state, a text area of width >= 1 and height >= 1
\* (the top line, the drawing area, the bottom line) has its cursor inside
\* its viewport: cursor_relative_position() has 0 <= x < width and
\* 0 <= y < height.
C20_CursorInsideViewport ==
    \A ta \in {top_line, draw_area, bottom_line} :
        (ta.bounding_box.width >= 1 /\ ta.bounding_box.height >= 1) => CursorOnACell(ta)

\* The test set_font_size makes on the cell size derived from value.
TooLarge(value) ==
    \/ character_height(value) > frame_buffer.height \div 2
    \/ character_width(value) > frame_buffer.width \div 2

Geometry(ta) == <<ta.bounding_box, ta.cursor_absolute_position>>

\* C10: a set_font_size(value) whose cell height exceeds half the surface
\* height, or whose cell width exceeds half the surface width, leaves the
\* font size and the width, height, cursor and viewport of the three areas
\* as they were.
C10_FontSizeRejection ==
    [][(last_call'.op = "set_font_size" /\ TooLarge(last_call'.arg))
        => /\ font_size' = font_size
           /\ Geometry(top_line') = Geometry(top_line)
           /\ Geometry(draw_area') = Geometry(draw_area)
           /\ Geometry(bottom_line') = Geometry(bottom_line)]_vars

\* C10's case: a set_font_size has just been rejected while the drawing
\* area's cursor was away from its viewport's top-left.
C10_Witness ==
    /\ last_call.op = "set_font_size"
    /\ TooLarge(last_call.arg)
    /\ font_size # last_call.arg
    /\ draw_area.cursor_absolute_position # draw_area.bounding_box.top_left

(* ------------------------- claims on the event loop -------------------- *)

\* C21: a RedrawRequested event for a window that has the size of the
\* canvas's surface leaves the drawing area's cursor, its viewport's
\* top-left and its viewport's width and height as they were.
C21_RedrawKeepsCursor ==
    [][(/\ last_call'.op = "redraw"
        /\ last_call'.arg = <<frame_buffer.width, frame_buffer.height>>)
       => Geometry(draw_area') = Geometry(draw_area)
      ]_vars

(* --------------------------- claims on the blit ------------------------ *)

OnSurface(p) ==
    /\ p.x \in 0..(frame_buffer.width - 1)
    /\ p.y \in 0..(frame_buffer.height - 1)

\* C9: draw never panics, whatever the surface's width and height, the cell
\* and the glyph's metrics; every pixel it writes is inside the surface, and
\* the destination pixel (x, y) takes the bitmap pixel (x, y) - origin, a
\* pixel of the glyph, where origin is the glyph's computed pixel position.
C9_DrawClips ==
    last_call.op = "draw" =>
        LET job == last_call.arg
            result == Unwrap(last_call.ret)
            origin == character_top_left(font_size, job.cell, job.metrics)
        IN  /\ ~result.panicked
            /\ \A w \in result.writes :
                /\ OnSurface(w.dest)
                /\ w.src = CoordSub(w.dest, origin)
                /\ w.src.x \in 0..(job.metrics.width - 1)
                /\ w.src.y \in 0..(job.metrics.height - 1)

\* The clamped pixel origin of the glyph of a draw, and the part of the
\* glyph skipped on the source side, left and top.
ClampedOrigin(job) ==
    LET origin == character_top_left(font_size, job.cell, job.metrics)
    IN  Coordinates(Max(origin.x, 0), Max(origin.y, 0))

SourceSkip(job) ==
    LET origin == character_top_left(font_size, job.cell, job.metrics)
    IN  Coordinates(-Min(origin.x, 0), -Min(origin.y, 0))

\* The draw just made was of a glyph that has pixels.
DrewGlyph ==
    /\ last_call.op = "draw"
    /\ last_call.arg.metrics.width * last_call.arg.metrics.height > 0

\* C23: for a glyph whose clamped origin (bx, by) is inside the surface, draw
\* writes min(glyph width, surface width - bx) minus the horizontal skip
\* pixel columns from bx on, and min(glyph height, surface height - by)
\* minus the vertical skip pixel rows from by on (no pixel when one of the
\* two counts is not positive): the vertical limit is the surface height.
C23_VisibleSize ==
    DrewGlyph =>
        LET job == last_call.arg
            b == ClampedOrigin(job)
            skip == SourceSkip(job)
            columns == Min(job.metrics.width, frame_buffer.width - b.x) - skip.x
            rows == Min(job.metrics.height, frame_buffer.height - b.y) - skip.y
        IN  (b.x < frame_buffer.width /\ b.y < frame_buffer.height)
                => { w.dest : w \in Unwrap(last_call.ret).writes }
                   = { Coordinates(b.x + j, b.y + i) :
                         j \in 0..(columns - 1), i \in 0..(rows - 1) }

\* C24: a draw of a glyph whose clamped origin (bx, by) is at or beyond the
\* surface (bx >= surface width or by >= surface height) returns without a
\* panic, so that the characters after it are drawn, and writes no pixel.
C24_SkipsBeyondSurface ==
    last_call.op = "draw" =>
        LET b == ClampedOrigin(last_call.arg)
            result == Unwrap(last_call.ret)
        IN  (b.x >= frame_buffer.width \/ b.y >= frame_buffer.height)
                => ~result.panicked /\ result.writes = {}

(* ------------------------- claims on the layout ------------------------ *)

\* C11: after a set_font_size(value) that is accepted, whatever value is,
\* values whose cell width or height is 0 included, the call has not
\* divided by zero and at least two cells fit on each axis: surface width /
\* cell width >= 2 and surface height / cell height >= 2.
C11_TwoCellsFit ==
    (last_call.op = "set_font_size" /\ ~TooLarge(last_call.arg))
        => /\ ~panicked
           /\ font_size = last_call.arg
           /\ character_width(font_size) # 0
           /\ frame_buffer.width \div character_width(font_size) >= 2
           /\ frame_buffer.height \div character_height(font_size) >= 2

\* The state follows a call that lays the three areas out: the
\* construction, a resize, or a set_font_size that was accepted.
LaidOut ==
    \/ last_call.op \in {"new", "resize"}
    \/ last_call.op = "set_font_size" /\ ~TooLarge(last_call.arg)

\* C12: after the construction, after every resize and after every accepted
\* set_font_size, the status areas are 1 row high, the drawing area is
\* (surface height / cell height) - 2 rows high and the three areas are
\* surface width / cell width columns wide; and resize leaves the font size
\* as it was.
C12_Layout ==
    /\ [](LaidOut /\ ~panicked
            => LET columns == frame_buffer.width \div character_width(font_size)
                   rows == frame_buffer.height \div character_height(font_size)
               IN  /\ top_line.bounding_box.height = 1
                   /\ bottom_line.bounding_box.height = 1
                   /\ draw_area.bounding_box.height = rows - 2
                   /\ top_line.bounding_box.width = columns
                   /\ draw_area.bounding_box.width = columns
                   /\ bottom_line.bounding_box.width = columns)
    /\ [][last_call'.op = "resize" => font_size' = font_size]_vars

(* ----------------------- claims on the glyph cache --------------------- *)

\* C13: the font engine is asked to rasterize a (glyph, pixel size) key only
\* on the first rasterize call for that key: a call whose key is already in
\* the atlas is answered without asking the engine, and every call returns
\* the atlas's entry for the key, which is the engine's answer, an empty
\* bitmap included.
C13_EngineAskedOnce ==
    last_call.op = "rasterize" =>
        LET result == Unwrap(last_call.ret)
        IN  /\ result.cached => ~result.engine_asked
            /\ result.value = atlas[config_of(font_size, last_call.arg)]
            /\ result.value = FontEngine(last_call.arg, font_size)

(* --------------------------- claims on the blend ----------------------- *)

\* C14: whenever draw changes a destination pixel for a coverage byte v,
\* each of the pixel's three colour channels becomes min(255, old channel
\* + v) and its top byte stays as it was.
C14_SaturatingBlend ==
    [][last_call'.op = "draw"
        => \A w \in Unwrap(last_call'.ret).writes :
            LET job == last_call'.arg
                i == PixelIndex(frame_buffer, w.dest)
                v == job.bitmap[w.src.y * job.metrics.width + w.src.x + 1]
            IN  buffer'[i] # buffer[i]
                    => /\ buffer'[i][1] = buffer[i][1]
                       /\ \A ch \in 2..4 : buffer'[i][ch] = Min(255, buffer[i][ch] + v)]_vars

\* C14's case: a draw with coverage 200 has saturated the channel that held
\* 128 and added to the two that held 1 and 0, under the top byte 1.
C14_Witness ==
    /\ last_call.op = "draw"
    /\ last_call.arg.bitmap = <<200>>
    /\ buffer[3] = Pixel(1, 255, 201, 200)

\* C25: for every glyph pixel draw visits, with coverage byte v and source
\* pixel s = 0x00vvvvvv: when s differs from the destination pixel, the
\* destination becomes the saturating sum (see C14); when s equals it, the
\* destination stays as it was, nothing being added, also when v is not 0.
C25_EqualityGate ==
    [][last_call'.op = "draw"
        => \A w \in Unwrap(last_call'.ret).writes :
            LET job == last_call'.arg
                i == PixelIndex(frame_buffer, w.dest)
                v == job.bitmap[w.src.y * job.metrics.width + w.src.x + 1]
                s == Pixel(0, v, v, v)
                d == buffer[i]
            IN  buffer'[i] = IF s # d
                             THEN Pixel(d[1], Min(255, d[2] + v), Min(255, d[3] + v),
                                        Min(255, d[4] + v))
                             ELSE d]_vars

\* C25's case: a draw with coverage 128 has left the pixel at 0x00808080,
\* the value of its own source pixel, where a sum of the two would be
\* 0x00ffffff.
C25_Witness ==
    /\ last_call.op = "draw"
    /\ last_call.arg.bitmap = <<128>>
    /\ Unwrap(last_call.ret).writes # {}
    /\ buffer[3] = Pixel(0, 128, 128, 128)

(* -------------------------- claims on the cursor ----------------------- *)

\* The pixel p lies in the block of one of the cells of the rectangle given
\* to invert, offset by its origin: the block of cell (x, y) has its
\* top-left at (x * cell width, y * cell height) and is one cell large.
InBlocks(p) ==
    LET job == Unwrap(rect)
        first == CoordAdd(job.top_left, job.bounding_box.top_left)
        w == character_width(font_size)
        h == character_height(font_size)
    IN  \E x \in first.x..(first.x + job.bounding_box.width - 1),
           y \in first.y..(first.y + job.bounding_box.height - 1) :
            /\ p.x \in (x * w)..(x * w + w - 1)
            /\ p.y \in (y * h)..(y * h + h - 1)

\* C15: an invert that returns has complemented the three colour channels
\* of every pixel of the surface in the blocks of its rectangle's cells,
\* left the top byte of those pixels as it was and left every other pixel
\* as it was; and a second invert with the same rectangle and origin has
\* put the buffer back as it was before the first.
C15_Invert ==
    (last_call.op = "invert" /\ ~panicked) =>
        LET before == Unwrap(last_call.ret)
        IN  /\ \A x \in 0..(frame_buffer.width - 1), y \in 0..(frame_buffer.height - 1) :
                LET i == y * frame_buffer.width + x + 1
                IN  IF InBlocks(Coordinates(x, y))
                    THEN /\ buffer[i][1] = before[i][1]
                         /\ \A ch \in 2..4 : buffer[i][ch] = 255 - before[i][ch]
                    ELSE buffer[i] = before[i]
            /\ Unwrap(rect).calls = 2 => buffer = Unwrap(rect).original

\* C15's case: the second of two inverts of a rectangle of 2 cells has
\* returned, on a surface the first had changed.
C15_Witness ==
    /\ last_call.op = "invert"
    /\ ~panicked
    /\ Unwrap(rect).calls = 2
    /\ Unwrap(rect).bounding_box.width = 2
    /\ Unwrap(rect).bounding_box.height = 1
    /\ Unwrap(last_call.ret) # buffer

====
